---- MODULE Spec2Model ----
(***************************************************************************)
(* Word formatter of BypassAIGC: the job manager (job_manager.py), the     *)
(* compiler pipeline (compiler.py) and the validator / fixer pair          *)
(* (validator.py, fixer.py).                                               *)
(*                                                                         *)
(*   Spec         the job manager: create_job, run_job, cancel_job,        *)
(*                delete_job and shutdown over all jobs                    *)
(*   SpecLive     Spec under the scheduling of asyncio                     *)
(*   SpecStream   one job and one stream_progress subscriber               *)
(*   SpecStreamLive  SpecStream under the scheduling of asyncio            *)
(*   SpecFix      validate_docx, fix_docx and apply_patch on bounded       *)
(*                documents                                                *)
(*   SpecCompile  one call of compile_document or                          *)
(*                compile_document_with_ai, phase by phase                 *)
(*   SpecZip      DocxPackage.to_bytes at different wall-clock times       *)
(*   SpecParse    format detection and the two text parsers                *)
(*   SpecSchema   validate_custom_spec on bounded spec JSON                *)
(*   SpecClassify ai_identify_paragraph_types and the regex classifier     *)
(***************************************************************************)
EXTENDS Integers, Sequences, FiniteSets, TLC

\* ------------------------------------------------------------------------
\* Bounds
\* ------------------------------------------------------------------------
MaxJobs == 2
MaxGate == 2
MaxBodyLen == 2
MaxFixOps == 2
MaxRenderLen == 1
MaxFixIter == 2
MaxMembers == 2
MaxClock == 3
MaxLineLen == 4
MaxNodes == 4
MaxLevels == 2
MaxParts == 3
MaxParas == 2
MaxItems == 2

JobIds == 1..MaxJobs

\* ------------------------------------------------------------------------
\* Program constants
\* ------------------------------------------------------------------------
\* CompileOptions.max_fix_iterations default
DefaultMaxFixIterations == 3

VARIABLES
    max_concurrent_jobs,  \* JobManager.__init__ argument
    _jobs,                \* JobManager._jobs: ids present in the job table
    _job_locks,           \* JobManager._job_locks: ids present in the lock table
    lock_held,            \* asyncio.Lock of each job: TRUE while held
    _semaphore,           \* asyncio.Semaphore: free permits
    _waiters,             \* asyncio.Semaphore: FIFO of run_job tasks waiting
    job,                  \* the Job objects (they outlive their table entry)
    task,                 \* the run_job background task of each job
    st_pc,                \* stream_progress generator: position
    st_job,               \* stream_progress: job_id argument
    st_new,               \* stream_progress: new_progress (slice copy)
    st_pos,               \* stream_progress: events of new_progress yielded
    st_last,              \* stream_progress: last_progress_count
    st_out,               \* events the subscriber has received, in order
    fx_doc,               \* validator / fixer: the docx being worked on
    fx_spec,              \* validator / fixer: the StyleSpec
    fx_report,            \* Optional report of validate_docx(fx_doc, fx_spec)
    fx_prev,              \* Optional report fix_docx built fx_doc from
    fx_patch,             \* Optional patch apply_patch built fx_doc with
    fx_pc,                \* "idle" | "doc" | "validated"
    fx_n,                 \* fix_docx / apply_patch calls so far
    fx_target,            \* Optional violation whose suggestion alone built fx_doc
    compile,              \* one call of compile_document(_with_ai): its
                          \* arguments, position and local variables
    zp_files,             \* DocxPackage.files: the ordered member map
    zp_clock,             \* wall clock, in seconds
    zp_out,               \* the values to_bytes has returned, with their times
    ps_text,              \* input text of the parse phase, as a sequence of pieces
    ps_nodes,             \* Optional node list the Markdown parser yields for it
    ps_format,            \* Optional input format the text was parsed as
    ps_ast,               \* Optional DocumentAST.blocks
    sc_json,              \* validate_custom_spec: the spec_json argument
    sc_result,            \* Optional outcome: the StyleSpec or the ValueError
    sc_pc,                \* "idle" | "call" | "done"
    cl_paras,             \* ai_identify_paragraph_types: the paragraphs argument
    cl_ai,                \* Optional outcome of ai_service.complete
    cl_out,               \* Optional outcome of ai_identify_paragraph_types
    cl_pc                 \* "idle" | "call" | "done"

jobVars == <<max_concurrent_jobs, _jobs, _job_locks, lock_held, _semaphore,
             _waiters, job, task>>
streamVars == <<st_pc, st_job, st_new, st_pos, st_last, st_out>>
fixVars == <<fx_doc, fx_spec, fx_report, fx_prev, fx_patch, fx_pc, fx_n, fx_target>>
zipVars == <<zp_files, zp_clock, zp_out>>
parseVars == <<ps_text, ps_nodes, ps_format, ps_ast>>
schemaVars == <<sc_json, sc_result, sc_pc>>
classVars == <<cl_paras, cl_ai, cl_out, cl_pc>>
pureVars == <<fixVars, compile, zipVars, parseVars, schemaVars, classVars>>
vars == <<jobVars, streamVars, pureVars>>

\* ------------------------------------------------------------------------
\* JobStatus
\* ------------------------------------------------------------------------
PENDING == "pending"
RUNNING == "running"
COMPLETED == "completed"
FAILED == "failed"
CANCELLED == "cancelled"
NotCreated == "not_created"

TerminalStatus == {COMPLETED, FAILED, CANCELLED}

\* Optional[...] fields hold <<>> for None and <<v>> for a value.
None == <<>>
Some(v) == <<v>>

\* ========================================================================
\* Documents, StyleSpec, validator and fixer
\* ========================================================================
\* word/document.xml: the children of w:body in order.  An element is
\*   tag     "p" | "tbl" | "sectPr"
\*   style   w:pPr/w:pStyle/@w:val ("" when absent)
\*   text    the text of the paragraph's w:t nodes
\*   rpr     local names of the children of the w:rPr elements in the paragraph
\*   fld     Optional w:fldSimple: [field, levels] of its w:instr
\*   sectPr  Optional sectPr (the element itself, or w:pPr/w:sectPr of a
\*           paragraph): [pgMar |-> Optional [key -> Optional twips]]
\*   kids    the paragraphs in the cells of a table, in document order
El(tag, style, text, rpr, fld, sectPr, kids) ==
    [tag |-> tag, style |-> style, text |-> text, rpr |-> rpr, fld |-> fld,
     sectPr |-> sectPr, kids |-> kids]

Para(style, text, rpr) == El("p", style, text, rpr, None, None, <<>>)

\* keys of the validator's `checks` dict, in insertion order
MarginKeys == <<"top", "bottom", "left", "right", "gutter", "header", "footer">>

\* ForbiddenDirectFormatting() defaults
ForbidAll ==
    [font |-> TRUE, size |-> TRUE, bold |-> TRUE, italic |-> TRUE,
     underline |-> TRUE, color |-> TRUE]

\* build_generic_spec(): lengths in tenths of a millimetre, titles
\* transliterated (ZhaiYao, YinYan, ZhiXie, CanKaoWenXian)
Generic_CN ==
    [name |-> "Generic_CN",
     page |-> [margins_mm |-> [top |-> 250, bottom |-> 200, left |-> 250,
                               right |-> 200, binding |-> 50],
               header_mm |-> 150, footer_mm |-> 150],
     styles |-> {"FrontHeading", "TitleCN", "TitleEN", "MetaLine",
                 "AbstractBody", "KeywordsBody", "Body", "ListBullet",
                 "ListNumber", "PageNumber", "H1", "H2", "H3",
                 "FigureCaption", "TableTitle", "TableText", "Reference"},
     structure |-> [required_h1_titles |->
                        <<"ZhaiYao", "Abstract", "YinYan", "ZhiXie", "CanKaoWenXian">>,
                    toc_max_level |-> 3],
     forbidden_direct_formatting |-> ForbidAll]

\* a custom StyleSpec accepted by validate_custom_spec: other margins, no Body
\* and no FrontHeading style, bold overrides allowed, TOC down to level 2
CustomSpec ==
    [name |-> "Custom",
     page |-> [margins_mm |-> [top |-> 254, bottom |-> 254, left |-> 300,
                               right |-> 300, binding |-> 0],
               header_mm |-> 127, footer_mm |-> 127],
     styles |-> {"H1", "H2", "Text"},
     structure |-> [required_h1_titles |-> <<>>, toc_max_level |-> 2],
     forbidden_direct_formatting |-> [ForbidAll EXCEPT !.bold = FALSE]]

Specs == {Generic_CN, CustomSpec}

\* validator._mm_to_twips: int(round(mm / 25.4 * 1440)), mm in tenths (no
\* value is a tie, so rounding half to even never applies)
_mm_to_twips(mm10) == (2 * mm10 * 1440 + 254) \div 508

\* fixer._mm_to_twips
fixer_mm_to_twips(mm10) == (2 * mm10 * 1440 + 254) \div 508

\* the `checks` dict of validate_docx and the `mapping` dict of
\* _apply_set_page_margins
ExpectedMM(spec, k) ==
    CASE k = "top" -> spec.page.margins_mm.top
      [] k = "bottom" -> spec.page.margins_mm.bottom
      [] k = "left" -> spec.page.margins_mm.left
      [] k = "right" -> spec.page.margins_mm.right
      [] k = "gutter" -> spec.page.margins_mm.binding
      [] k = "header" -> spec.page.header_mm
      [] k = "footer" -> spec.page.footer_mm

SetMin(S) == CHOOSE x \in S : \A y \in S : x <= y
SetMax(S) == CHOOSE x \in S : \A y \in S : x >= y

\* _find_sectpr (validator and fixer): position in the body of the element
\* that holds the section properties, 0 for None
_find_sectpr(doc) ==
    LET body == doc.body
        direct == {i \in 1..Len(body) : body[i].tag = "sectPr"}
        ps == {i \in 1..Len(body) : body[i].tag = "p"}
    IN  IF direct # {} THEN SetMin(direct)
        ELSE IF ps = {} THEN 0
        ELSE IF body[SetMax(ps)].sectPr = None THEN 0
        ELSE SetMax(ps)

\* findall(".//w:p"): the paragraphs in document order, as <<i, k>>: child i
\* of the body (k = 0) or paragraph k of the table that is child i
RECURSIVE KidPaths(_, _, _)
KidPaths(i, k, n) ==
    IF k > n THEN <<>> ELSE <<(<<i, k>>)>> \o KidPaths(i, k + 1, n)

RECURSIVE ParaPaths(_, _)
ParaPaths(body, i) ==
    IF i > Len(body) THEN <<>>
    ELSE (CASE body[i].tag = "p" -> <<(<<i, 0>>)>>
            [] body[i].tag = "tbl" -> KidPaths(i, 1, Len(body[i].kids))
            [] OTHER -> <<>>)
         \o ParaPaths(body, i + 1)

all_paras(doc) == ParaPaths(doc.body, 1)

ParaAt(doc, path) ==
    IF path[2] = 0 THEN doc.body[path[1]]
    ELSE doc.body[path[1]].kids[path[2]]

SetParaAt(doc, path, p) ==
    IF path[2] = 0 THEN [doc EXCEPT !.body[path[1]] = p]
    ELSE [doc EXCEPT !.body[path[1]].kids[path[2]] = p]

\* _has_toc_field
_has_toc_field(doc) ==
    \E n \in 1..Len(all_paras(doc)) :
        LET p == ParaAt(doc, all_paras(doc)[n])
        IN  p.fld # None /\ p.fld[1].field = "TOC"

\* _DIRECT_RPR_TAGS
_DIRECT_RPR_TAGS ==
    [rFonts |-> "font", sz |-> "size", szCs |-> "size", b |-> "bold",
     bCs |-> "bold", i |-> "italic", iCs |-> "italic", u |-> "underline",
     color |-> "color"]

\* _check_run_direct_formatting: the (kind, local) pairs found
_check_run_direct_formatting(p, forbid) ==
    { <<_DIRECT_RPR_TAGS[t], t>> :
        t \in {x \in p.rpr : x \in DOMAIN _DIRECT_RPR_TAGS
                             /\ forbid[_DIRECT_RPR_TAGS[x]]} }

Violation(id, severity, idx, suggestion) ==
    [violation_id |-> id, severity |-> severity,
     location |-> [paragraph_index |-> idx], suggestion |-> suggestion]

FixSuggestion(action, params) == [action |-> action, params |-> params]

\* the margin check with the tolerance compared by >= instead of >
RECURSIVE MarginViolationsInclusive(_, _, _)
MarginViolationsInclusive(pgMar, spec, n) ==
    IF n > Len(MarginKeys) THEN <<>>
    ELSE LET k == MarginKeys[n]
             exp_twips == _mm_to_twips(ExpectedMM(spec, k))
             d == IF pgMar[k] = None THEN 0 ELSE pgMar[k][1] - exp_twips
             off == IF d < 0 THEN -d ELSE d
         IN  (IF pgMar[k] # None /\ off >= 10
              THEN << Violation("layout.margin_" \o k, "error", None,
                        Some(FixSuggestion("set_page_margins",
                          [x \in {"target", k} |->
                             IF x = "target" THEN "section0" ELSE exp_twips]))) >>
              ELSE <<>>)
             \o MarginViolationsInclusive(pgMar, spec, n + 1)

\* validate_docx, check 1: margins of the pgMar found, key by key
RECURSIVE MarginViolations(_, _, _)
MarginViolations(pgMar, spec, n) ==
    IF n > Len(MarginKeys) THEN <<>>
    ELSE LET k == MarginKeys[n]
             exp_twips == _mm_to_twips(ExpectedMM(spec, k))
             d == IF pgMar[k] = None THEN 0 ELSE pgMar[k][1] - exp_twips
             off == IF d < 0 THEN -d ELSE d
         IN  (IF pgMar[k] # None /\ off > 10
              THEN << Violation("layout.margin_" \o k, "error", None,
                        Some(FixSuggestion("set_page_margins",
                          [x \in {"target", k} |->
                             IF x = "target" THEN "section0" ELSE exp_twips]))) >>
              ELSE <<>>)
             \o MarginViolations(pgMar, spec, n + 1)

LayoutViolations(doc, spec) ==
    LET at == _find_sectpr(doc) IN
    IF at = 0
    THEN << Violation("layout.sectpr_missing", "error", None, None) >>
    ELSE IF doc.body[at].sectPr[1].pgMar = None
    THEN << Violation("layout.pgmar_missing", "error", None, None) >>
    ELSE MarginViolations(doc.body[at].sectPr[1].pgMar[1], spec, 1)

\* validate_docx, check 2: required level-1 titles
h1_titles(doc) ==
    { doc.body[i].text : i \in { n \in 1..Len(doc.body) :
          /\ doc.body[n].tag = "p"
          /\ doc.body[n].style \in {"H1", "FrontHeading"}
          /\ doc.body[n].text # "" } }

RECURSIVE StructureViolations(_, _, _)
StructureViolations(doc, req, n) ==
    IF n > Len(req) THEN <<>>
    ELSE (IF req[n] \notin h1_titles(doc)
          THEN << Violation("structure.required_section_missing", "warning",
                            None, None) >>
          ELSE <<>>)
         \o StructureViolations(doc, req, n + 1)

\* validate_docx, checks 3 and 4, paragraph by paragraph (idx from 0)
RECURSIVE ParagraphViolations(_, _, _)
ParagraphViolations(doc, spec, idx) ==
    IF idx >= Len(all_paras(doc)) THEN <<>>
    ELSE LET p == ParaAt(doc, all_paras(doc)[idx + 1])
             df == _check_run_direct_formatting(p, spec.forbidden_direct_formatting)
         IN  (IF /\ p.style # ""
                 /\ p.style \notin spec.styles
                 /\ p.style \notin {"Normal", "DefaultParagraphFont"}
              THEN << Violation("style.unknown_style", "warning", Some(idx),
                        Some(FixSuggestion("set_paragraph_style",
                          [paragraph_index |-> idx, style_id |-> "Body"]))) >>
              ELSE <<>>)
             \o (IF df # {}
                 THEN << Violation("style.direct_formatting_forbidden", "error",
                           Some(idx),
                           Some(FixSuggestion("clear_direct_run_formatting",
                             [paragraph_index |-> idx]))) >>
                 ELSE <<>>)
             \o ParagraphViolations(doc, spec, idx + 1)

\* validate_docx, check 5: TOC field
TocViolations(doc, spec) ==
    IF spec.structure.toc_max_level > 0 /\ ~_has_toc_field(doc)
    THEN << Violation("field.toc_missing", "warning", None,
              Some(FixSuggestion("insert_toc_field",
                [max_level |-> spec.structure.toc_max_level]))) >>
    ELSE <<>>

CountSeverity(violations, sev) ==
    Cardinality({n \in 1..Len(violations) : violations[n].severity = sev})

\* validate_docx running the TOC check before the paragraph checks
validate_docx_TocFirst(doc, spec) ==
    LET violations ==
            LayoutViolations(doc, spec)
            \o StructureViolations(doc, spec.structure.required_h1_titles, 1)
            \o TocViolations(doc, spec)
            \o ParagraphViolations(doc, spec, 0)
        errors == CountSeverity(violations, "error")
    IN  [summary |-> [ok |-> errors = 0, errors |-> errors,
                      warnings |-> CountSeverity(violations, "warning"),
                      infos |-> CountSeverity(violations, "info")],
         violations |-> violations]

validate_docx(doc, spec) ==
    LET violations ==
            LayoutViolations(doc, spec)
            \o StructureViolations(doc, spec.structure.required_h1_titles, 1)
            \o ParagraphViolations(doc, spec, 0)
            \o TocViolations(doc, spec)
        errors == CountSeverity(violations, "error")
    IN  [summary |-> [ok |-> errors = 0, errors |-> errors,
                      warnings |-> CountSeverity(violations, "warning"),
                      infos |-> CountSeverity(violations, "info")],
         violations |-> violations]

\* ------------------------------------------------------------------------
\* Fixer
\* ------------------------------------------------------------------------
\* build_patch_from_report: the suggestions of the violations, in order
RECURSIVE ActionsOf(_, _)
ActionsOf(violations, n) ==
    IF n > Len(violations) THEN <<>>
    ELSE (IF violations[n].suggestion # None
          THEN << [action |-> violations[n].suggestion[1].action,
                   params |-> violations[n].suggestion[1].params] >>
          ELSE <<>>)
         \o ActionsOf(violations, n + 1)

build_patch_from_report(report) == [actions |-> ActionsOf(report.violations, 1)]

EmptyPgMar == [k \in {MarginKeys[n] : n \in 1..Len(MarginKeys)} |-> None]

\* _apply_set_page_margins (attributes other than the seven margins are not
\* part of the document model)
_apply_set_page_margins(doc, params, spec) ==
    LET at == _find_sectpr(doc) IN
    IF at = 0 THEN doc
    ELSE LET old == IF doc.body[at].sectPr[1].pgMar = None THEN EmptyPgMar
                    ELSE doc.body[at].sectPr[1].pgMar[1]
             new == [k \in DOMAIN old |->
                        IF k \in DOMAIN params /\ k # "target"
                        THEN Some(fixer_mm_to_twips(ExpectedMM(spec, k)))
                        ELSE old[k]]
         IN  [doc EXCEPT !.body[at].sectPr = Some([pgMar |-> Some(new)])]

\* a pPr built anew instead of reusing the paragraph's own: its sectPr is lost
WithStyleFreshPPr(p, style_id) == [p EXCEPT !.style = style_id, !.sectPr = None]

\* the paragraph all_paras[idx] of _apply_set_paragraph_style with its
\* pPr/pStyle set to style_id (an existing pPr is kept)
WithStyle(p, style_id) == [p EXCEPT !.style = style_id]

\* _apply_set_paragraph_style
_apply_set_paragraph_style(doc, params) ==
    IF "paragraph_index" \notin DOMAIN params THEN doc
    ELSE LET idx == params.paragraph_index
             style_id == IF "style_id" \in DOMAIN params THEN params.style_id
                         ELSE "Body"
             paths == all_paras(doc)
         IN  IF idx < 0 \/ idx >= Len(paths) THEN doc
             ELSE SetParaAt(doc, paths[idx + 1],
                            WithStyle(ParaAt(doc, paths[idx + 1]), style_id))

\* forbidden_tags of _apply_clear_direct_formatting
forbidden_tags == {"rFonts", "sz", "szCs", "b", "bCs", "i", "iCs", "u", "color"}

\* _apply_clear_direct_formatting
_apply_clear_direct_formatting(doc, params) ==
    IF "paragraph_index" \notin DOMAIN params THEN doc
    ELSE LET idx == params.paragraph_index
             paths == all_paras(doc)
         IN  IF idx < 0 \/ idx >= Len(paths) THEN doc
             ELSE LET p == ParaAt(doc, paths[idx + 1])
                  IN  SetParaAt(doc, paths[idx + 1],
                                [p EXCEPT !.rpr = @ \ forbidden_tags])

\* the paragraph built by _apply_insert_toc
TocParagraph(max_level) ==
    El("p", "FrontHeading", "", {},
       Some([field |-> "TOC", levels |-> max_level]), None, <<>>)

\* body.findall("w:p"): the body positions of the paragraph children
RECURSIVE BodyParas(_, _)
BodyParas(body, i) ==
    IF i > Len(body) THEN <<>>
    ELSE (IF body[i].tag = "p" THEN <<i>> ELSE <<>>) \o BodyParas(body, i + 1)

\* _apply_insert_toc: insert_idx is the rank among the paragraph children of
\* the first H1 / FrontHeading paragraph (0 when there is none), and the new
\* paragraph goes to that index among all children of the body
_apply_insert_toc(doc, params) ==
    LET max_level == IF "max_level" \in DOMAIN params THEN params.max_level ELSE 3
        body == doc.body
        ps == BodyParas(body, 1)
        heads == {i \in 1..Len(ps) : body[ps[i]].style \in {"H1", "FrontHeading"}}
        insert_idx == IF heads = {} THEN 0 ELSE SetMin(heads) - 1
        at == IF insert_idx > Len(body) THEN Len(body) ELSE insert_idx
    IN  [doc EXCEPT !.body = SubSeq(body, 1, at) \o <<TocParagraph(max_level)>>
                             \o SubSeq(body, at + 1, Len(body))]

\* apply_patch: the actions in order; unknown actions are skipped
ApplyAction(doc, act, spec) ==
    CASE act.action = "set_page_margins" -> _apply_set_page_margins(doc, act.params, spec)
      [] act.action = "set_paragraph_style" -> _apply_set_paragraph_style(doc, act.params)
      [] act.action = "clear_direct_run_formatting" ->
            _apply_clear_direct_formatting(doc, act.params)
      [] act.action = "insert_toc_field" -> _apply_insert_toc(doc, act.params)
      [] OTHER -> doc

RECURSIVE ApplyActions(_, _, _, _)
ApplyActions(doc, actions, n, spec) ==
    IF n > Len(actions) THEN doc
    ELSE ApplyActions(ApplyAction(doc, actions[n], spec), actions, n + 1, spec)

apply_patch(doc, patch, spec) == ApplyActions(doc, patch.actions, 1, spec)

\* fix_docx
fix_docx(doc, report, spec) ==
    LET patch == build_patch_from_report(report)
    IN  IF patch.actions = <<>> THEN doc ELSE apply_patch(doc, patch, spec)

\* ------------------------------------------------------------------------
\* Specification of the validator and the fixer on bounded documents
\* ------------------------------------------------------------------------
\* pgMar attribute values; PgExact matches Generic_CN
PgExact ==
    [k \in {MarginKeys[n] : n \in 1..Len(MarginKeys)} |->
        Some(_mm_to_twips(ExpectedMM(Generic_CN, k)))]
PgTopOff(d) == [PgExact EXCEPT !["top"] = Some(PgExact["top"][1] + d)]
PgTwoOff == [PgExact EXCEPT !["left"] = Some(PgExact["left"][1] - 11),
                            !["footer"] = Some(PgExact["footer"][1] + 20),
                            !["gutter"] = None]

SectPrEl(pgMar) == El("sectPr", "", "", {}, None, Some([pgMar |-> pgMar]), <<>>)

\* the trailing w:sectPr child of the body: absent, or one of these
SectChoices ==
    { <<>>, <<SectPrEl(None)>>, <<SectPrEl(Some(PgExact))>>,
      <<SectPrEl(Some(PgTopOff(10)))>>, <<SectPrEl(Some(PgTopOff(11)))>>,
      <<SectPrEl(Some(PgTwoOff))>> }

\* the other children of the body
ElementChoices ==
    { Para("H1", "Intro", {}),
      Para("FrontHeading", "ZhaiYao", {}),
      Para("Body", "hello", {}),
      Para("Body", "bold text", {"b", "vertAlign"}),
      Para("Fancy", "x", {"sz"}),
      El("p", "", "", {}, Some([field |-> "TOC", levels |-> 3]), None, <<>>),
      El("tbl", "", "", {}, None, None, <<Para("TableText", "cell", {"i"})>>),
      El("p", "Fancy", "last", {}, None, Some([pgMar |-> Some(PgExact)]), <<>>) }

RECURSIVE Bodies(_)
Bodies(n) ==
    IF n = 0 THEN {<<>>}
    ELSE Bodies(n - 1) \cup
         { Append(b, e) : b \in {x \in Bodies(n - 1) : Len(x) = n - 1},
                          e \in ElementChoices }

Docs(n) == { [body |-> b \o sect] : b \in Bodies(n), sect \in SectChoices }

\* patches built by hand (Patch is plain data)
TestPatches ==
    { [actions |-> << [action |-> "set_page_margins",
                       params |-> [target |-> "section0", top |-> 1417]] >>],
      [actions |-> << [action |-> "set_paragraph_style",
                       params |-> [paragraph_index |-> 0, style_id |-> "Body"]] >>],
      [actions |-> << [action |-> "insert_toc_field",
                       params |-> [max_level |-> 2]] >>],
      [actions |-> << [action |-> "set_paragraph_style",
                       params |-> [paragraph_index |-> 1, style_id |-> "H1"]],
                      [action |-> "clear_direct_run_formatting",
                       params |-> [paragraph_index |-> 1]],
                      [action |-> "reflow", params |-> [target |-> "section0"]] >>] }

FixIdle ==
    /\ fx_doc = [body |-> <<>>]
    /\ fx_spec = Generic_CN
    /\ fx_report = None
    /\ fx_prev = None
    /\ fx_patch = None
    /\ fx_pc = "idle"
    /\ fx_n = 0
    /\ fx_target = None

FixInit ==
    /\ fx_doc \in Docs(MaxBodyLen)
    /\ fx_spec \in Specs
    /\ fx_report = None
    /\ fx_prev = None
    /\ fx_patch = None
    /\ fx_pc = "doc"
    /\ fx_n = 0
    /\ fx_target = None

\* report = validate_docx(docx_bytes, spec)
Validate ==
    /\ fx_pc = "doc"
    /\ fx_report' = Some(validate_docx(fx_doc, fx_spec))
    /\ fx_pc' = "validated"
    /\ UNCHANGED <<fx_doc, fx_spec, fx_prev, fx_patch, fx_n, fx_target, jobVars, streamVars, compile, zipVars, parseVars, schemaVars, classVars>>

\* docx_bytes = fix_docx(docx_bytes, report, spec)
FixDocx ==
    /\ fx_pc = "validated"
    /\ fx_n < MaxFixOps
    /\ fx_doc' = fix_docx(fx_doc, fx_report[1], fx_spec)
    /\ fx_prev' = fx_report
    /\ fx_patch' = IF build_patch_from_report(fx_report[1]).actions = <<>>
                   THEN None
                   ELSE Some(build_patch_from_report(fx_report[1]))
    /\ fx_report' = None
    /\ fx_pc' = "doc"
    /\ fx_n' = fx_n + 1
    /\ fx_target' = None
    /\ UNCHANGED <<fx_spec, jobVars, streamVars, compile, zipVars, parseVars, schemaVars, classVars>>

\* the most violations a report on a bounded document has: seven margins,
\* the required titles, two per paragraph (those of the body and the TOC
\* paragraphs inserted since) and the TOC
MaxViolations == 7 + 5 + 2 * (MaxBodyLen + MaxFixOps) + 1

\* docx_bytes = apply_patch(docx_bytes, Patch(actions=[a]), spec) with a the
\* suggestion of violation n of the report
ApplySuggestion(n) ==
    /\ fx_pc = "validated"
    /\ fx_n < MaxFixOps
    /\ n \in 1..Len(fx_report[1].violations)
    /\ fx_report[1].violations[n].suggestion # None
    /\ LET patch == [actions |-> ActionsOf(<<fx_report[1].violations[n]>>, 1)]
       IN  /\ fx_doc' = apply_patch(fx_doc, patch, fx_spec)
           /\ fx_patch' = Some(patch)
    /\ fx_target' = Some(fx_report[1].violations[n])
    /\ fx_prev' = None
    /\ fx_report' = None
    /\ fx_pc' = "doc"
    /\ fx_n' = fx_n + 1
    /\ UNCHANGED <<fx_spec, jobVars, streamVars, compile, zipVars, parseVars, schemaVars, classVars>>

\* docx_bytes = apply_patch(docx_bytes, patch, spec)
ApplyPatch(patch) ==
    /\ fx_pc = "doc"
    /\ fx_n < MaxFixOps
    /\ fx_doc' = apply_patch(fx_doc, patch, fx_spec)
    /\ fx_prev' = None
    /\ fx_patch' = Some(patch)
    /\ fx_report' = None
    /\ fx_n' = fx_n + 1
    /\ fx_target' = None
    /\ UNCHANGED <<fx_pc, fx_spec, jobVars, streamVars, compile, zipVars, parseVars, schemaVars, classVars>>

\* ------------------------------------------------------------------------
\* StyleSpec schema (models/stylespec.py) and validate_custom_spec
\* (spec_generator.py).  A spec_json is the text of a JSON object, or not
\* JSON at all; of the object, the fields below vary and every other field
\* is present and valid.  Lengths are in tenths of a millimetre.
\*   top             page.margins_mm.top
\*   styles          the styles object: key -> style_id of the StyleDef
\*   numbering       Optional list of levels [level, style_id]
\*   toc_max_level   Optional structure.toc_max_level (absent: the default)
\* ------------------------------------------------------------------------
\* StructureSpec.toc_max_level default
DefaultTocMaxLevel == 3

\* MarginMM: Field(..., ge=0)
MarginMM_ok(j) == j.top >= 0

\* StyleDef.style_id: Field(..., min_length=1)
StyleDef_ok(j) == \A k \in DOMAIN j.styles : j.styles[k] # ""

\* StyleSpec._style_ids_must_match_keys
_style_ids_must_match_keys(j) == \A k \in DOMAIN j.styles : k = j.styles[k]

\* NumberingLevel.level: Field(..., ge=0, le=8)
NumberingLevel_ok(j) ==
    j.numbering # None =>
        \A n \in 1..Len(j.numbering[1]) :
            j.numbering[1][n].level >= 0 /\ j.numbering[1][n].level <= 8

\* StructureSpec.toc_max_level: Field(3, ge=1, le=8)
StructureSpec_ok(j) ==
    j.toc_max_level # None => j.toc_max_level[1] >= 1 /\ j.toc_max_level[1] <= 8

\* StyleSpec.model_validate: TRUE when no ValidationError is raised
model_validate_ok(j) ==
    /\ MarginMM_ok(j)
    /\ StyleDef_ok(j)
    /\ _style_ids_must_match_keys(j)
    /\ NumberingLevel_ok(j)
    /\ StructureSpec_ok(j)

\* the StyleSpec model_validate builds
StyleSpecOf(j) ==
    [name |-> "Custom",
     page |-> [margins_mm |-> [top |-> j.top, bottom |-> 254, left |-> 300,
                               right |-> 300, binding |-> 0],
               header_mm |-> 127, footer_mm |-> 127],
     styles |-> DOMAIN j.styles,
     numbering |-> j.numbering,
     structure |-> [required_h1_titles |-> <<>>,
                    toc_max_level |-> IF j.toc_max_level = None
                                      THEN DefaultTocMaxLevel
                                      ELSE j.toc_max_level[1]],
     forbidden_direct_formatting |-> ForbidAll]

\* validate_custom_spec: the StyleSpec returned or the ValueError raised
validate_custom_spec(j) ==
    IF ~j.is_json
    THEN [ok |-> FALSE, error |-> "ValueError: JSON format error"]
    ELSE IF ~model_validate_ok(j)
    THEN [ok |-> FALSE, error |-> "ValueError: spec validation failed"]
    ELSE [ok |-> TRUE, spec |-> StyleSpecOf(j)]

SchemaKeys == {"H1", "Body"}
SchemaStyleIds == {"H1", "Body", ""}
StyleMaps == UNION { [K -> SchemaStyleIds] : K \in SUBSET SchemaKeys }

LevelChoices ==
    { [level |-> 0, style_id |-> "H1"], [level |-> 1, style_id |-> "H2"],
      [level |-> 1, style_id |-> "Body"], [level |-> 9, style_id |-> "H1"] }

RECURSIVE LevelLists(_)
LevelLists(n) ==
    IF n = 0 THEN {<<>>}
    ELSE LevelLists(n - 1) \cup
         { Append(l, e) : l \in {x \in LevelLists(n - 1) : Len(x) = n - 1},
                          e \in LevelChoices }

SpecJsons ==
    { [is_json |-> TRUE, top |-> t, styles |-> st, numbering |-> nu,
       toc_max_level |-> toc] :
        t \in {-1, 0, 254}, st \in StyleMaps,
        nu \in {None} \cup {Some(l) : l \in LevelLists(MaxLevels)},
        toc \in {None} \cup {Some(x) : x \in {0, 1, 2, 8, 9}} }
    \cup { [is_json |-> FALSE, top |-> 0, styles |-> <<>>, numbering |-> None,
            toc_max_level |-> None] }

SchemaIdle ==
    /\ sc_json = [is_json |-> FALSE, top |-> 0, styles |-> <<>>,
                  numbering |-> None, toc_max_level |-> None]
    /\ sc_result = None
    /\ sc_pc = "idle"

SchemaInit ==
    /\ sc_json \in SpecJsons
    /\ sc_result = None
    /\ sc_pc = "call"

\* spec = validate_custom_spec(spec_json)
ValidateCustomSpec ==
    /\ sc_pc = "call"
    /\ sc_result' = Some(validate_custom_spec(sc_json))
    /\ sc_pc' = "done"
    /\ UNCHANGED <<sc_json, jobVars, streamVars, fixVars, compile, zipVars, parseVars, classVars>>

\* ------------------------------------------------------------------------
\* DocxPackage (utils/ooxml.py): the zip container
\* ------------------------------------------------------------------------
\* the MS-DOS time field of a zip entry for second t of the hour:
\* minutes << 5 | seconds // 2
DosTime(t) == ((t \div 60) % 60) * 32 + ((t % 60) \div 2)

\* ZipFile.writestr(name, content) with a str name: ZipInfo(name,
\* date_time=time.localtime(time.time())[:6]), deflated
ZipEntry(name, content, now) ==
    [filename |-> name, compress_type |-> "deflated", time |-> DosTime(now),
     data |-> content]

\* DocxPackage.to_bytes at wall-clock time now: one entry per member, in the
\* order of the dict
to_bytes(files, now) ==
    [n \in 1..Len(files) |-> ZipEntry(files[n].name, files[n].content, now)]

MemberNames == {"[Content_Types].xml", "word/document.xml"}
MemberContents == {"<a/>", "<b/>"}

\* ordered member maps with at most n members (the names are dict keys)
RECURSIVE MemberMaps(_)
MemberMaps(n) ==
    IF n = 0 THEN {<<>>}
    ELSE MemberMaps(n - 1) \cup
         { Append(m, [name |-> nm, content |-> ct]) :
             m \in {x \in MemberMaps(n - 1) : Len(x) = n - 1},
             nm \in MemberNames, ct \in MemberContents }

DistinctNames(m) == \A a, b \in 1..Len(m) : a # b => m[a].name # m[b].name

ZipIdle ==
    /\ zp_files = <<>>
    /\ zp_clock = 0
    /\ zp_out = <<>>

ZipInit ==
    /\ zp_files \in {m \in MemberMaps(MaxMembers) : DistinctNames(m)}
    /\ zp_clock = 0
    /\ zp_out = <<>>

\* a second passes
Tick ==
    /\ zp_clock < MaxClock
    /\ zp_clock' = zp_clock + 1
    /\ UNCHANGED <<zp_files, zp_out, jobVars, streamVars, fixVars, compile, parseVars, schemaVars, classVars>>

\* pkg.to_bytes()
ToBytes ==
    /\ Len(zp_out) < 2
    /\ zp_out' = Append(zp_out, [bytes |-> to_bytes(zp_files, zp_clock),
                                 at |-> zp_clock])
    /\ UNCHANGED <<zp_files, zp_clock, jobVars, streamVars, fixVars, compile, parseVars, schemaVars, classVars>>

\* ------------------------------------------------------------------------
\* Text -> DocumentAST (ast_generator.py) and format detection (compiler.py).
\* A text is a sequence of pieces: every whitespace, digit and punctuation
\* character is a piece of its own, a run of letters is one piece; the
\* full-width full stop and the backtick are written by name.
\* ------------------------------------------------------------------------
IsSpace(ch) == ch \in {" ", "\t", "\n"}
IsDigit(ch) == ch \in {"0", "1", "2", "3", "4", "5", "6", "7", "8", "9"}

RECURSIVE lstrip(_)
lstrip(t) == IF t # <<>> /\ IsSpace(Head(t)) THEN lstrip(Tail(t)) ELSE t

RECURSIVE rstrip(_)
rstrip(t) ==
    IF t # <<>> /\ IsSpace(t[Len(t)]) THEN rstrip(SubSeq(t, 1, Len(t) - 1)) ELSE t

\* str.strip()
strip(t) == rstrip(lstrip(t))

\* `pat in t`
Contains(t, pat) ==
    \E i \in 1..(Len(t) - Len(pat) + 1) : SubSeq(t, i, i + Len(pat) - 1) = pat

\* t.startswith(pat)
StartsWith(t, pat) == Len(t) >= Len(pat) /\ SubSeq(t, 1, Len(pat)) = pat

\* str.splitlines()
RECURSIVE splitlines(_, _)
splitlines(t, cur) ==
    IF t = <<>> THEN (IF cur = <<>> THEN <<>> ELSE <<cur>>)
    ELSE IF Head(t) = "\n" THEN <<cur>> \o splitlines(Tail(t), <<>>)
    ELSE splitlines(Tail(t), Append(cur, Head(t)))

\* "\n".join(lines)
RECURSIVE join(_)
join(lines) ==
    IF lines = <<>> THEN <<>>
    ELSE IF Len(lines) = 1 THEN lines[1]
    ELSE lines[1] \o <<"\n">> \o join(Tail(lines))

\* the first whitespace-delimited token of a text that starts with one
RECURSIVE FirstToken(_)
FirstToken(t) ==
    IF t = <<>> \/ IsSpace(Head(t)) THEN <<>>
    ELSE <<Head(t)>> \o FirstToken(Tail(t))

\* line.split(None, 1)
split1(line) ==
    LET l == lstrip(line)
        tok == FirstToken(l)
        rest == lstrip(SubSeq(l, Len(tok) + 1, Len(l)))
    IN  IF l = <<>> THEN <<>>
        ELSE IF rest = <<>> THEN <<tok>> ELSE <<tok, rest>>

\* detect_input_format
detect_input_format(text) ==
    LET head == SubSeq(text, 1, IF Len(text) < 500 THEN Len(text) ELSE 500)
        md_indicators ==
            << StartsWith(strip(text), <<"-", "-", "-">>),
               Contains(head, <<"#", " ">>),
               Contains(head, <<"#", "#", " ">>),
               Contains(head, <<"#", "#", "#", " ">>),
               Contains(text, <<"BACKTICK", "BACKTICK", "BACKTICK">>),
               Contains(text, <<"!", "[">>),
               Contains(text, <<"|", " ">>) /\ Contains(text, <<" ", "|">>) >>
    IN  IF Cardinality({n \in 1..7 : md_indicators[n]}) >= 2
        THEN "markdown" ELSE "plaintext"

\* _parse_front_matter, as the lines of the body it returns
front_matter_body(text) ==
    LET lines == splitlines(text, <<>>)
        closing == {i \in 2..Len(lines) : strip(lines[i]) = <<"-", "-", "-">>}
    IN  IF lines = <<>> \/ strip(lines[1]) # <<"-", "-", "-">> \/ closing = {}
        THEN lines
        ELSE SubSeq(lines, SetMin(closing) + 1, Len(lines))

\* blocks of a DocumentAST
HeadingBlock(level, text) == [type |-> "heading", level |-> level, text |-> text]
ParagraphBlock(text) == [type |-> "paragraph", text |-> text]
PageBreakBlock == [type |-> "page_break"]
SectionBreakBlock == [type |-> "section_break", kind |-> "next_page"]
ListBlock == [type |-> "list"]
BibliographyBlock(items) == [type |-> "bibliography", items |-> items]

IsSep(ch) == ch \in {".", "FULLWIDTH_FULL_STOP"}

\* \d+([\.FULLWIDTH_FULL_STOP]\d+)* : the number part of _HEADING_NUM_RE
IsHeadingNumber(t) ==
    /\ t # <<>>
    /\ \A n \in 1..Len(t) : IsDigit(t[n]) \/ IsSep(t[n])
    /\ IsDigit(t[1])
    /\ IsDigit(t[Len(t)])
    /\ \A n \in 1..(Len(t) - 1) : IsSep(t[n]) => IsDigit(t[n + 1])

\* _HEADING_NUM_RE.match(line): leading whitespace, the number, at least one
\* whitespace character and at least one more character of any kind
_HEADING_NUM_RE(line) ==
    LET l == lstrip(line)
    IN  \E e \in 1..(Len(l) - 2) :
            /\ IsHeadingNumber(SubSeq(l, 1, e))
            /\ IsSpace(l[e + 1])

\* flush_para
flush_para(blocks, para_buf) ==
    IF para_buf = <<>> THEN blocks
    ELSE LET t == strip(join(para_buf))
         IN  IF t # <<>> THEN Append(blocks, ParagraphBlock(t)) ELSE blocks

\* the heading parse_plaintext_heuristic builds from a matching line
HeadingOfLine(line) ==
    LET prefix == FirstToken(lstrip(line))
        sep_count == Cardinality({n \in 1..Len(prefix) : IsSep(prefix[n])})
        level == IF 1 + sep_count < 3 THEN 1 + sep_count ELSE 3
        parts == split1(line)
        title == IF Len(parts) > 1 THEN strip(parts[2]) ELSE strip(line)
    IN  HeadingBlock(level, title)

\* the line loop of parse_plaintext_heuristic
RECURSIVE ScanLines(_, _, _)
ScanLines(lines, blocks, para_buf) ==
    IF lines = <<>> THEN flush_para(blocks, para_buf)
    ELSE LET line == Head(lines)
             rest == Tail(lines)
         IN  IF strip(line) = <<>>
             THEN ScanLines(rest, flush_para(blocks, para_buf), <<>>)
             ELSE IF strip(line) \in {<<"[", "[", "PAGEBREAK", "]", "]">>,
                                      <<"-", "-", "-", "pagebreak", "-", "-", "-">>}
             THEN ScanLines(rest, Append(flush_para(blocks, para_buf),
                                         PageBreakBlock), <<>>)
             ELSE IF strip(line) \in {<<"[", "[", "SECTIONBREAK", "]", "]">>,
                                      <<"-", "-", "-", "sectionbreak", "-", "-", "-">>}
             THEN ScanLines(rest, Append(flush_para(blocks, para_buf),
                                         SectionBreakBlock), <<>>)
             ELSE IF _HEADING_NUM_RE(line)
             THEN ScanLines(rest, Append(flush_para(blocks, para_buf),
                                         HeadingOfLine(line)), <<>>)
             ELSE ScanLines(rest, blocks, Append(para_buf, line))

\* parse_plaintext_heuristic(text).blocks
parse_plaintext_heuristic(text) == ScanLines(front_matter_body(text), <<>>, <<>>)

\* nodes of the Markdown parser's AST
HeadingNode(level, text) == [type |-> "heading", level |-> level, text |-> text]
ParagraphNode(text) == [type |-> "paragraph", text |-> text]
ListNode == [type |-> "list"]

\* the block parse_markdown_to_ast builds from one node
BlockOfNode(n) ==
    CASE n.type = "heading" -> HeadingBlock(n.level, n.text)
      [] n.type = "paragraph" ->
            IF strip(n.text) \in
                  {<<"<", "!", "-", "-", " ", "pagebreak", " ", "-", "-", ">">>,
                   <<"<", "!", "-", "-", "PAGEBREAK", "-", "-", ">">>,
                   <<"[", "[", "PAGEBREAK", "]", "]">>}
            THEN PageBreakBlock
            ELSE IF strip(n.text) \in
                  {<<"<", "!", "-", "-", " ", "sectionbreak", " ", "-", "-", ">">>,
                   <<"<", "!", "-", "-", "SECTIONBREAK", "-", "-", ">">>,
                   <<"[", "[", "SECTIONBREAK", "]", "]">>}
            THEN SectionBreakBlock
            ELSE ParagraphBlock(n.text)
      [] OTHER -> ListBlock

BlocksOfNodes(nodes) == [n \in 1..Len(nodes) |-> BlockOfNode(nodes[n])]

\* the titles of the references heading (the first is the Chinese title,
\* transliterated)
RefTitles == {<<"CanKaoWenXian">>, <<"References">>}

IsRefHeading(b) ==
    b.type = "heading" /\ b.level = 1 /\ strip(b.text) \in RefTitles

\* re.match(r"^\[\d+\]", text)
MatchesRefNumber(t) ==
    /\ Len(t) >= 3
    /\ t[1] = "["
    /\ \E k \in 3..Len(t) :
          /\ t[k] = "]"
          /\ \A n \in 2..(k - 1) : IsDigit(t[n])

\* the bibliography pass of parse_markdown_to_ast
RECURSIVE BibPass(_, _, _, _)
BibPass(blocks, blocks2, in_ref, bib_items) ==
    IF blocks = <<>>
    THEN IF bib_items # <<>> THEN Append(blocks2, BibliographyBlock(bib_items))
         ELSE blocks2
    ELSE LET b == Head(blocks)
             rest == Tail(blocks)
         IN  IF IsRefHeading(b)
             THEN BibPass(rest, Append(blocks2, b), TRUE, bib_items)
             ELSE IF in_ref /\ b.type = "paragraph"
             THEN IF MatchesRefNumber(strip(b.text))
                  THEN BibPass(rest, blocks2, in_ref, Append(bib_items, strip(b.text)))
                  ELSE BibPass(rest,
                               Append(IF bib_items # <<>>
                                      THEN Append(blocks2, BibliographyBlock(bib_items))
                                      ELSE blocks2, b),
                               FALSE, <<>>)
             ELSE BibPass(rest, Append(blocks2, b), in_ref, bib_items)

\* parse_markdown_to_ast(text).blocks, from the node list of the text
parse_markdown_to_ast(nodes) == BibPass(BlocksOfNodes(nodes), <<>>, FALSE, <<>>)

\* bounded inputs
LinePieces == {"1", ".", "FULLWIDTH_FULL_STOP", " ", "A"}

RECURSIVE Lines(_)
Lines(n) ==
    IF n = 0 THEN {<<>>}
    ELSE Lines(n - 1) \cup
         { Append(l, ch) : l \in {x \in Lines(n - 1) : Len(x) = n - 1},
                           ch \in LinePieces }

SampleTexts ==
    { <<"#", " ", "A", "\n", "\n", "hello", "\n">>,
      <<"1", " ", "Intro", "\n", "body", "\n", "more", "\n", "\n",
        "[", "[", "PAGEBREAK", "]", "]", "\n", "1", ".", "1", " ", " ", "\n">>,
      <<"-", "-", "-", "\n", "author", ":", " ", "x", "\n", "-", "-", "-", "\n",
        "2", " ", "Method", "\n">> }

NodeChoices ==
    { HeadingNode(1, <<"References">>),
      HeadingNode(1, <<"Intro">>),
      ParagraphNode(<<"[", "1", "]", " ", "a">>),
      ParagraphNode(<<"[", "2", "]", " ", "b">>),
      ParagraphNode(<<"text">>),
      ListNode }

RECURSIVE NodeLists(_)
NodeLists(n) ==
    IF n = 0 THEN {<<>>}
    ELSE NodeLists(n - 1) \cup
         { Append(l, nd) : l \in {x \in NodeLists(n - 1) : Len(x) = n - 1},
                           nd \in NodeChoices }

\* a Markdown source whose blocks are the nodes: headings as ATX headings,
\* every block followed by a blank line
RECURSIVE MarkdownSource(_)
MarkdownSource(nodes) ==
    IF nodes = <<>> THEN <<>>
    ELSE LET n == Head(nodes)
             src == CASE n.type = "heading" ->
                            [k \in 1..n.level |-> "#"] \o <<" ">> \o n.text
                      [] n.type = "paragraph" -> n.text
                      [] OTHER -> <<"-", " ", "item">>
         IN  src \o <<"\n", "\n">> \o MarkdownSource(Tail(nodes))

ParseIdle ==
    /\ ps_text = <<>>
    /\ ps_nodes = None
    /\ ps_format = None
    /\ ps_ast = None

\* a plain text, or a Markdown text with the node list its parser yields
ParseInit ==
    /\ \/ /\ ps_text \in Lines(MaxLineLen) \cup SampleTexts
          /\ ps_nodes = None
       \/ /\ ps_nodes \in {Some(l) : l \in NodeLists(MaxNodes)}
          /\ ps_text = MarkdownSource(ps_nodes[1])
    /\ ps_format = None
    /\ ps_ast = None

\* phase 1 of compile_document with options.input_format = fmt
ParseText(fmt) ==
    /\ ps_ast = None
    /\ LET input_format == IF fmt = "auto" THEN detect_input_format(ps_text)
                           ELSE fmt
       IN  /\ input_format = "markdown" => ps_nodes # None
           /\ ps_format' = Some([option |-> fmt, used |-> input_format])
           /\ ps_ast' = Some(IF input_format = "markdown"
                             THEN parse_markdown_to_ast(ps_nodes[1])
                             ELSE parse_plaintext_heuristic(ps_text))
    /\ UNCHANGED <<ps_text, ps_nodes, jobVars, streamVars, fixVars, compile, zipVars, schemaVars, classVars>>

\* ------------------------------------------------------------------------
\* Paragraph classification (ast_generator.py): STRUCTURE_PATTERNS,
\* identify_paragraph_type and ai_identify_paragraph_types.  A paragraph is a
\* sequence of pieces as above; a run of two or more ASCII letters is one
\* piece, written in lower case (every pattern is matched with IGNORECASE),
\* and a Chinese character is one piece written by its pinyin in capitals.
\* ------------------------------------------------------------------------
\* [一-龥]: ZHAI YAO (abstract), NEI RONG, GUAN JIAN CI / ZI
\* (keywords), DI .. ZHANG (chapter), YI ER SHI (numerals), CAN KAO WEN XIAN
\* (references), ZHI XIE, XIE CI2 (acknowledgement), HAN (any other)
CJK ==
    {"ZHAI", "YAO", "NEI", "RONG", "GUAN", "JIAN", "CI", "ZI", "DI", "ZHANG",
     "YI", "ER", "SHI", "CAN", "KAO", "WEN", "XIAN", "ZHI", "XIE", "CI2", "HAN"}

\* [一二三四五六七八九十]
Numerals == {"YI", "ER", "SHI"}

\* runs of ASCII letters
Words ==
    {"title", "abstract", "summary", "keywords", "key", "words", "references",
     "acknowledgement"}

RECURSIVE DropWhile(_, _)
DropWhile(t, S) == IF t # <<>> /\ Head(t) \in S THEN DropWhile(Tail(t), S) ELSE t

Spaces == {" ", "\t", "\n"}
Digits == {"0", "1", "2", "3", "4", "5", "6", "7", "8", "9"}

\* the rest of t after a match of \d+ at its start, None when there is none
AfterDigits(t) ==
    IF t # <<>> /\ Head(t) \in Digits THEN Some(DropWhile(t, Digits)) ELSE None

\* the rest of t after the literal piece c, None when t does not start with it
AfterPiece(t, c) == IF t # <<>> /\ Head(t) = c THEN Some(Tail(t)) ELSE None

\* "title_cn": ^[一-龥]{2,50}$
Match_title_cn(t) ==
    Len(t) >= 2 /\ Len(t) <= 50 /\ \A n \in 1..Len(t) : t[n] \in CJK

\* "title_en": ^[A-Z][a-zA-Z\s\-:]+$
Match_title_en(t) ==
    /\ t # <<>> /\ Head(t) \in Words
    /\ \A n \in 1..Len(t) : t[n] \in Words \cup Spaces \cup {"-", ":"}

\* "abstract_cn": ^ZHAI\s*YAO[:]?  |  ^NEI RONG ZHAI YAO[:]?
Match_abstract_cn(t) ==
    \/ /\ AfterPiece(t, "ZHAI") # None
       /\ AfterPiece(DropWhile(AfterPiece(t, "ZHAI")[1], Spaces), "YAO") # None
    \/ StartsWith(t, <<"NEI", "RONG", "ZHAI", "YAO">>)

\* "abstract_en": ^abstract[:]?  |  ^summary[:]?
Match_abstract_en(t) == t # <<>> /\ Head(t) \in {"abstract", "summary"}

\* "keywords_cn": ^GUAN JIAN CI[:]?  |  ^GUAN JIAN ZI[:]?
Match_keywords_cn(t) ==
    StartsWith(t, <<"GUAN", "JIAN", "CI">>) \/ StartsWith(t, <<"GUAN", "JIAN", "ZI">>)

\* "keywords_en": ^key\s*words[:]?  |  ^keywords[:]?
Match_keywords_en(t) ==
    \/ t # <<>> /\ Head(t) = "keywords"
    \/ /\ AfterPiece(t, "key") # None
       /\ AfterPiece(DropWhile(AfterPiece(t, "key")[1], Spaces), "words") # None

\* "heading_1": ^DI[numerals]+ZHANG  |  ^[numerals]+DUNHAO  |  ^\d+[\s\.]
Match_heading_1(t) ==
    \/ /\ AfterPiece(t, "DI") # None
       /\ LET r == AfterPiece(t, "DI")[1]
          IN  r # <<>> /\ Head(r) \in Numerals
              /\ AfterPiece(DropWhile(r, Numerals), "ZHANG") # None
    \/ /\ t # <<>> /\ Head(t) \in Numerals
       /\ AfterPiece(DropWhile(t, Numerals), "DUNHAO") # None
    \/ /\ AfterDigits(t) # None
       /\ AfterDigits(t)[1] # <<>>
       /\ Head(AfterDigits(t)[1]) \in Spaces \cup {"."}

\* ^\d+\.\d+ : the rest after it, None when there is no match
AfterTwoPart(t) ==
    IF AfterDigits(t) = None THEN None
    ELSE IF AfterPiece(AfterDigits(t)[1], ".") = None THEN None
    ELSE AfterDigits(AfterPiece(AfterDigits(t)[1], ".")[1])

\* "heading_2": ^[FW_LPAREN (][numerals]+[FW_RPAREN )]  |  ^\d+\.\d+[\s\.]?
Match_heading_2(t) ==
    \/ /\ t # <<>> /\ Head(t) \in {"FW_LPAREN", "("}
       /\ Tail(t) # <<>> /\ Head(Tail(t)) \in Numerals
       /\ LET r == DropWhile(Tail(t), Numerals)
          IN  r # <<>> /\ Head(r) \in {"FW_RPAREN", ")"}
    \/ AfterTwoPart(t) # None

\* "heading_3": ^\d+\.\d+\.\d+[\s\.]?
Match_heading_3(t) ==
    /\ AfterTwoPart(t) # None
    /\ AfterPiece(AfterTwoPart(t)[1], ".") # None
    /\ AfterDigits(AfterPiece(AfterTwoPart(t)[1], ".")[1]) # None

\* "reference": ^CAN KAO WEN XIAN  |  ^references
Match_reference(t) ==
    StartsWith(t, <<"CAN", "KAO", "WEN", "XIAN">>) \/ (t # <<>> /\ Head(t) = "references")

\* "acknowledgement": ^ZHI\s*XIE  |  ^XIE\s*CI2  |  ^acknowledgement
Match_acknowledgement(t) ==
    \/ /\ AfterPiece(t, "ZHI") # None
       /\ AfterPiece(DropWhile(AfterPiece(t, "ZHI")[1], Spaces), "XIE") # None
    \/ /\ AfterPiece(t, "XIE") # None
       /\ AfterPiece(DropWhile(AfterPiece(t, "XIE")[1], Spaces), "CI2") # None
    \/ t # <<>> /\ Head(t) = "acknowledgement"

\* STRUCTURE_PATTERNS: the keys in insertion order
STRUCTURE_PATTERNS ==
    <<"title_cn", "title_en", "abstract_cn", "abstract_en", "keywords_cn",
      "keywords_en", "heading_1", "heading_2", "heading_3", "reference",
      "acknowledgement">>

\* some pattern of para_type matches at the start of t
AnyPatternMatches(para_type, t) ==
    CASE para_type = "title_cn" -> Match_title_cn(t)
      [] para_type = "title_en" -> Match_title_en(t)
      [] para_type = "abstract_cn" -> Match_abstract_cn(t)
      [] para_type = "abstract_en" -> Match_abstract_en(t)
      [] para_type = "keywords_cn" -> Match_keywords_cn(t)
      [] para_type = "keywords_en" -> Match_keywords_en(t)
      [] para_type = "heading_1" -> Match_heading_1(t)
      [] para_type = "heading_2" -> Match_heading_2(t)
      [] para_type = "heading_3" -> Match_heading_3(t)
      [] para_type = "reference" -> Match_reference(t)
      [] para_type = "acknowledgement" -> Match_acknowledgement(t)

\* identify_paragraph_type: the first key of the table with a matching pattern
identify_paragraph_type(text) ==
    LET t == strip(text)
        hits == {n \in 1..Len(STRUCTURE_PATTERNS) :
                    AnyPatternMatches(STRUCTURE_PATTERNS[n], t)}
    IN  IF t = <<>> THEN "body"
        ELSE IF hits = {} THEN "body"
        ELSE STRUCTURE_PATTERNS[SetMin(hits)]

\* The value json.loads(response) yields:
\*   [kind |-> "null" | "number"], [kind |-> "string", chars |-> n],
\*   [kind |-> "object", keys |-> n], [kind |-> "list", items |-> <<..>>]
\* and an item of a list is [kind |-> "number"] or
\*   [kind |-> "object", index |-> Optional int, type |-> Optional tag]
\* `for item in result`: the values the loop variable takes, None when
\* iterating raises TypeError
IterItems(result) ==
    CASE result.kind = "list" -> Some(result.items)
      [] result.kind = "string" -> Some([n \in 1..result.chars |-> [kind |-> "string"]])
      [] result.kind = "object" -> Some([n \in 1..result.keys |-> [kind |-> "string"]])
      [] OTHER -> None

\* the inner loop for paragraph i: the para_type found, or "RAISE" when
\* item.get raises AttributeError
RECURSIVE TypeFromItems(_, _, _)
TypeFromItems(items, i, n) ==
    IF n > Len(items) THEN "body"
    ELSE IF items[n].kind # "object" THEN "RAISE"
    ELSE IF items[n].index = Some(i)
    THEN (IF items[n].type = None THEN "body" ELSE items[n].type[1])
    ELSE TypeFromItems(items, i, n + 1)

Identified(text, type) == [text |-> text, type |-> type]

\* the except branch: the regex classifier on every paragraph
FallbackTypes(paragraphs) ==
    [n \in 1..Len(paragraphs) |->
        Identified(paragraphs[n], identify_paragraph_type(paragraphs[n]))]

\* ai_identify_paragraph_types(paragraphs, ai_service), given what
\* ai_service.complete did: [raises |-> TRUE], or [raises |-> FALSE,
\* json |-> Optional value] with None for a response json.loads rejects
ai_identify_paragraph_types(paragraphs, ai) ==
    IF ai.raises \/ ai.json = None THEN FallbackTypes(paragraphs)
    ELSE IF paragraphs = <<>> THEN <<>>
    ELSE IF IterItems(ai.json[1]) = None THEN FallbackTypes(paragraphs)
    ELSE LET items == IterItems(ai.json[1])[1]
             types == [n \in 1..Len(paragraphs) |-> TypeFromItems(items, n - 1, 1)]
         IN  IF \E n \in 1..Len(paragraphs) : types[n] = "RAISE"
             THEN FallbackTypes(paragraphs)
             ELSE [n \in 1..Len(paragraphs) |-> Identified(paragraphs[n], types[n])]

\* numbered paragraphs: a number of 1..n parts, then "", "." or " ", then
\* nothing or a title
RECURSIVE NumberOfParts(_)
NumberOfParts(n) == IF n = 1 THEN <<"1">> ELSE NumberOfParts(n - 1) \o <<".", "1">>

NumberedParas(n) ==
    { NumberOfParts(k) \o sep \o tail :
        k \in 1..n, sep \in {<<>>, <<".">>, <<" ">>},
        tail \in {<<>>, <<"title">>} }

SampleParas ==
    { <<"title">>, <<"title", " ", "words">>, <<"abstract", ":", " ", "title">>,
      <<"ZHAI", "YAO">>, <<"ZHAI", " ", "YAO", "FW_COLON", "HAN">>,
      <<"keywords", ":", " ", "title", ",", "words">>,
      <<"DI", "YI", "ZHANG", " ", "HAN", "HAN">>, <<"YI", "DUNHAO", "HAN">>,
      <<"(", "YI", ")", "HAN">>, <<"references", ".">>,
      <<"HAN", "HAN", ",", "title", ".">>, <<" ">> }

ParaChoices == NumberedParas(MaxParts) \cup SampleParas

RECURSIVE ParaLists(_)
ParaLists(n) ==
    IF n = 0 THEN {<<>>}
    ELSE ParaLists(n - 1) \cup
         { Append(l, e) : l \in {x \in ParaLists(n - 1) : Len(x) = n - 1},
                          e \in ParaChoices }

ItemChoices ==
    { [kind |-> "object", index |-> Some(0), type |-> Some("heading_1")],
      [kind |-> "object", index |-> Some(1), type |-> Some("body")],
      [kind |-> "object", index |-> Some(0), type |-> None],
      [kind |-> "object", index |-> None, type |-> Some("heading_2")],
      [kind |-> "number"] }

RECURSIVE ItemLists(_)
ItemLists(n) ==
    IF n = 0 THEN {<<>>}
    ELSE ItemLists(n - 1) \cup
         { Append(l, e) : l \in {x \in ItemLists(n - 1) : Len(x) = n - 1},
                          e \in ItemChoices }

\* what ai_service.complete can do
AIOutcomes ==
    { [raises |-> TRUE, json |-> None], [raises |-> FALSE, json |-> None] }
    \cup { [raises |-> FALSE, json |-> Some(v)] :
            v \in { [kind |-> "null"], [kind |-> "number"],
                    [kind |-> "string", chars |-> 0],
                    [kind |-> "string", chars |-> 2],
                    [kind |-> "object", keys |-> 0],
                    [kind |-> "object", keys |-> 1] }
                  \cup { [kind |-> "list", items |-> l] : l \in ItemLists(MaxItems) } }

ClassIdle ==
    /\ cl_paras = <<>>
    /\ cl_ai = None
    /\ cl_out = None
    /\ cl_pc = "idle"

ClassInit ==
    /\ cl_paras \in ParaLists(MaxParas)
    /\ cl_ai = None
    /\ cl_out = None
    /\ cl_pc = "call"

\* identified = await ai_identify_paragraph_types(paragraphs, ai_service)
AiIdentify(ai) ==
    /\ cl_pc = "call"
    /\ cl_ai' = Some(ai)
    /\ cl_out' = Some(ai_identify_paragraph_types(cl_paras, ai))
    /\ cl_pc' = "done"
    /\ UNCHANGED <<cl_paras, jobVars, streamVars, fixVars, compile, zipVars, parseVars, schemaVars>>

\* ------------------------------------------------------------------------
\* Progress events published by the compiler (CompileProgress), as seen by
\* the job manager: phase and progress (num/den).
\* ------------------------------------------------------------------------
Ev(ph, n, d) == [phase |-> ph, num |-> n, den |-> d]

RECURSIVE FixIterEvents(_, _)
FixIterEvents(i, n) ==
    IF i > n THEN <<>>
    ELSE <<Ev("fix", i, DefaultMaxFixIterations)>> \o FixIterEvents(i + 1, n)

\* Events of one run of compile_document in which `fix` iterations of the fix
\* loop run (0: the fix phase is skipped) and the phase failAt raises
\* ("none": nothing raises).
CutAt(failAt) ==
    CASE failAt = "parse" -> 1
      [] failAt = "template" -> 5
      [] failAt = "render" -> 7
      [] failAt = "validate" -> 9
      [] OTHER -> 10

compile_document_events(failAt, fix) ==
    LET head == << Ev("parse", 0, 1), Ev("parse", 1, 1),
                   Ev("spec", 0, 1), Ev("spec", 1, 1),
                   Ev("template", 0, 1), Ev("template", 1, 1),
                   Ev("render", 0, 1), Ev("render", 1, 1),
                   Ev("validate", 0, 1), Ev("validate", 1, 1) >>
        fixev == IF fix = 0 THEN <<>>
                 ELSE <<Ev("fix", 0, 1)>> \o FixIterEvents(1, fix)
                      \o <<Ev("fix", 1, 1)>>
    IN  IF failAt = "none"
        THEN head \o fixev \o <<Ev("done", 1, 1)>>
        ELSE SubSeq(head, 1, CutAt(failAt))

\* Events of _compile_from_ast (no per-iteration fix events).
compile_from_ast_events(failAt, fix) ==
    LET head == << Ev("spec", 0, 1), Ev("spec", 1, 1),
                   Ev("template", 0, 1), Ev("template", 1, 1),
                   Ev("render", 0, 1), Ev("render", 1, 1),
                   Ev("validate", 0, 1), Ev("validate", 1, 1) >>
        fixev == IF fix = 0 THEN <<>>
                 ELSE <<Ev("fix", 0, 1), Ev("fix", 1, 1)>>
    IN  IF failAt = "none"
        THEN head \o fixev \o <<Ev("done", 1, 1)>>
        ELSE SubSeq(head, 1, CutAt(failAt) - 2)

\* What the collaborators of one compile do: which phase raises and how many
\* fix iterations run.
CompileOutcomes ==
    { [failAt |-> "none", fix |-> 1], [failAt |-> "render", fix |-> 0] }

\* CompileResult as the job manager reads it.
ResultOf(oc) ==
    IF oc.failAt = "none"
    THEN [success |-> TRUE, docx_bytes |-> Some("docx"), error |-> None]
    ELSE [success |-> FALSE, docx_bytes |-> None, error |-> Some(oc.failAt)]


\* ------------------------------------------------------------------------
\* Compiler: compile_document, compile_document_with_ai, _compile_from_ast,
\* one step per phase.  compile.frame is the function that is executing:
\* "compile_document", "with_ai" (the parse part of compile_document_with_ai),
\* "from_ast", or "fallback" (compile_document called by the except handler
\* of compile_document_with_ai).
\* ------------------------------------------------------------------------
notify(c, ph, n, d) == [c EXCEPT !.events = Append(@, Ev(ph, n, d))]

\* CompileResult(success=False, error=str(e), warnings=warnings)
CompileFailure(e, warnings) ==
    [success |-> FALSE, docx_bytes |-> None, report |-> None,
     error |-> Some(e), warnings |-> warnings]

\* CompileResult(success=True, docx_bytes=..., report=..., warnings=warnings)
CompileSuccess(docx_bytes, report, warnings) ==
    [success |-> TRUE, docx_bytes |-> docx_bytes, report |-> report,
     error |-> None, warnings |-> warnings]

\* the warning the except handler of compile_document_with_ai appends
FallbackAnnotation(e) == "AI compile failed, degraded to rule mode: " \o e

\* the `warnings` list of the executing function
WarningsOf(c) == IF c.frame = "fallback" THEN c.inner_warnings ELSE c.warnings

\* an exception leaving compile_document uncaught
RaiseUncaught(c, e) ==
    [c EXCEPT !.raised = Append(@, e), !.pc = "raised"]

\* an exception e raised by a phase or by the progress callback: the except
\* clause of the executing function (compile.raised records the exception)
Raise(c, e) ==
    CASE c.frame \in {"compile_document", "from_ast"} ->
            [c EXCEPT !.raised = Append(@, e),
                      !.result = Some(CompileFailure(e, c.warnings)),
                      !.pc = "returned"]
      [] c.frame = "fallback" ->
            [c EXCEPT !.raised = Append(@, e),
                      !.fallback = Append(@, CompileFailure(e, c.inner_warnings)),
                      !.pc = "await"]
      [] c.frame = "with_ai" ->
            notify([c EXCEPT !.raised = Append(@, e),
                             !.error = Some(e),
                             !.warnings = Append(@, FallbackAnnotation(e)),
                             !.frame = "fallback",
                             !.inner_warnings = <<>>,
                             !.pc = "parse"],
                   "parse", 5, 10)

\* compile_document, phase 1
ParsePhase(c, raises) ==
    LET c1 == notify(c, "parse", 0, 1)
    IN  IF raises THEN Raise(c1, "parse error")
        ELSE [notify(c1, "parse", 1, 1) EXCEPT !.pc = "spec"]

\* compile_document_with_ai up to `return await _compile_from_ast(...)`;
\* ai_identify_paragraph_types catches its own failures
AIParsePhase(c, raises) ==
    LET c1 == notify(c, "parse", 0, 1)
        c2 == IF c.fmt = "markdown" THEN c1 ELSE notify(c1, "parse", 3, 10)
    IN  IF raises THEN Raise(c2, "parse error")
        ELSE [notify(c2, "parse", 1, 1) EXCEPT !.frame = "from_ast", !.pc = "spec"]

\* builtin_specs()
builtin_specs == [Generic_CN |-> Generic_CN, Generic_CN_NoIndent |-> Generic_CN]

\* phase 2: custom spec, else built-in by name, else build_generic_spec()
SpecPhase(c) ==
    LET spec == IF c.options.custom_spec # None THEN c.options.custom_spec[1]
                ELSE IF /\ c.options.spec_name # None
                        /\ c.options.spec_name[1] \in DOMAIN builtin_specs
                     THEN builtin_specs[c.options.spec_name[1]]
                     ELSE Generic_CN
    IN  [notify(notify(c, "spec", 0, 1), "spec", 1, 1)
            EXCEPT !.spec = Some(spec), !.pc = "template"]

\* phase 3
TemplatePhase(c, raises) ==
    LET c1 == notify(c, "template", 0, 1)
    IN  IF raises THEN Raise(c1, "template error")
        ELSE [notify(c1, "template", 1, 1) EXCEPT !.pc = "render"]

\* phase 4: render_docx returns the document d
RenderPhase(c, raises, d) ==
    LET c1 == notify(c, "render", 0, 1)
    IN  IF raises THEN Raise(c1, "render error")
        ELSE [notify(c1, "render", 1, 1) EXCEPT !.docx_bytes = Some(d),
                                                !.rendered = Some(d),
                                                !.pc = "validate"]

\* phase 5
ValidatePhase(c) ==
    [notify(notify(c, "validate", 0, 1), "validate", 1, 1)
        EXCEPT !.report = Some(validate_docx(c.docx_bytes[1], c.spec[1])),
               !.pc = "fixcheck"]

\* the fix phase announcing itself before testing whether it is needed
FixPhaseEnterAnnounced(c) ==
    IF c.options.auto_fix /\ ~c.report[1].summary.ok
    THEN [notify(c, "fix", 0, 1)
            EXCEPT !.i = 0, !.fix_calls = 0,
                   !.pc = IF c.options.max_fix_iterations > 0
                          THEN "fixloop" ELSE "fixend"]
    ELSE [notify(c, "fix", 0, 1) EXCEPT !.pc = "done"]

\* the fix phase entered for any violation, warnings included
FixPhaseEnterOnWarnings(c) ==
    IF c.options.auto_fix /\ c.report[1].violations # <<>>
    THEN [notify(c, "fix", 0, 1)
            EXCEPT !.i = 0, !.fix_calls = 0,
                   !.pc = IF c.options.max_fix_iterations > 0
                          THEN "fixloop" ELSE "fixend"]
    ELSE [c EXCEPT !.pc = "done"]

\* `if options.auto_fix and not report.summary.ok:` and the first test of
\* `for i in range(options.max_fix_iterations)`
FixPhaseEnter(c) ==
    IF c.options.auto_fix /\ ~c.report[1].summary.ok
    THEN [notify(c, "fix", 0, 1)
            EXCEPT !.i = 0, !.fix_calls = 0,
                   !.pc = IF c.options.max_fix_iterations > 0
                          THEN "fixloop" ELSE "fixend"]
    ELSE [c EXCEPT !.pc = "done"]

\* the fix loop never leaving on an ok report
FixLoopNoBreak(ok, i, n) == IF i + 1 < n THEN "fixloop" ELSE "fixend"

\* after one iteration: `if report.summary.ok: break`, else the next test of
\* range(max_fix_iterations)
FixLoopContinue(ok, i, n) == IF ~ok /\ i + 1 < n THEN "fixloop" ELSE "fixend"

\* one iteration of the fix loop
FixIteration(c) ==
    LET docx == fix_docx(c.docx_bytes[1], c.report[1], c.spec[1])
        report == validate_docx(docx, c.spec[1])
        c1 == [c EXCEPT !.docx_bytes = Some(docx), !.report = Some(report),
                        !.fix_calls = @ + 1]
        c2 == IF c.frame = "from_ast" THEN c1
              ELSE notify(c1, "fix", c.i + 1, c.options.max_fix_iterations)
        pc == FixLoopContinue(report.summary.ok, c.i, c.options.max_fix_iterations)
    IN  [c2 EXCEPT !.pc = pc, !.i = IF pc = "fixloop" THEN c.i + 1 ELSE c.i]

\* after the loop
FixPhaseExit(c) ==
    LET c1 == IF c.frame = "from_ast" \/ c.report[1].summary.ok THEN c
              ELSE IF c.frame = "fallback"
              THEN [c EXCEPT !.inner_warnings = Append(@, "errors remain after auto fix")]
              ELSE [c EXCEPT !.warnings = Append(@, "errors remain after auto fix")]
    IN  [notify(c1, "fix", 1, 1) EXCEPT !.pc = "done"]

\* notify(DONE) and `return CompileResult(success=True, ...)`
DonePhase(c) ==
    LET c1 == notify(c, "done", 1, 1)
        r == CompileSuccess(c.docx_bytes, c.report, WarningsOf(c))
    IN  IF c.frame = "fallback"
        THEN [c1 EXCEPT !.fallback = Append(@, r), !.pc = "await"]
        ELSE [c1 EXCEPT !.result = Some(r), !.pc = "returned"]

\* Error recorded when the fallback of compile_document_with_ai awaits the
\* CompileResult returned by the synchronous compile_document.
AwaitTypeError == "TypeError: object CompileResult can't be used in 'await' expression"

FallbackFailure ==
    [success |-> FALSE, docx_bytes |-> None, error |-> Some(AwaitTypeError)]


\* `return await compile_document(...)` in the except handler: the value is a
\* CompileResult, awaiting it raises TypeError, which the inner except turns
\* into the result
AwaitFallback(c) ==
    [c EXCEPT !.result = Some(CompileFailure(
                  "compile failed: " \o AwaitTypeError
                      \o " (original error: " \o c.error[1] \o ")",
                  c.warnings)),
              !.pc = "returned"]

\* CompileOptions the calls are made with
OptionChoices ==
    { [auto_fix |-> af, max_fix_iterations |-> n, custom_spec |-> cs,
       spec_name |-> Some("Generic_CN")] :
        af \in BOOLEAN, n \in 0..MaxFixIter, cs \in {None, Some(CustomSpec)} }

CompileCall(entry, fmt, options) ==
    [entry |-> entry, fmt |-> fmt, options |-> options,
     frame |-> IF entry = "compile_document" THEN "compile_document" ELSE "with_ai",
     pc |-> "parse", spec |-> None, docx_bytes |-> None, report |-> None,
     i |-> 0, fix_calls |-> 0, warnings |-> <<>>, inner_warnings |-> <<>>,
     events |-> <<>>, error |-> None, fallback |-> <<>>, result |-> None,
     raised |-> <<>>, rendered |-> None]

CompileIdle ==
    compile = [CompileCall("compile_document", "markdown",
                  [auto_fix |-> TRUE, max_fix_iterations |-> 0,
                   custom_spec |-> None, spec_name |-> None])
               EXCEPT !.pc = "idle"]

CompileInit ==
    compile \in { CompileCall(entry, fmt, options) :
                    entry \in {"compile_document", "compile_document_with_ai"},
                    fmt \in {"markdown", "plaintext"},
                    options \in OptionChoices }

\* ------------------------------------------------------------------------
\* Job objects
\* ------------------------------------------------------------------------
NoJob ==
    [status |-> NotCreated, input_file_name |-> None,
     progress_history |-> <<>>, current_progress |-> None,
     result |-> None, error |-> None,
     output_bytes |-> None, output_filename |-> None]

\* Job(...) as built by create_job
NewJob(fname) == [NoJob EXCEPT !.status = PENDING, !.input_file_name = fname]

\* run_job.progress_callback, applied to each event of evs in order
progress_callback(jrec, evs) ==
    IF evs = <<>> THEN jrec
    ELSE [jrec EXCEPT !.progress_history = @ \o evs,
                      !.current_progress = Some(evs[Len(evs)])]

_generate_output_filename(jrec, j) ==
    IF jrec.input_file_name # None
    THEN <<jrec.input_file_name[1], "_formatted.docx">>
    ELSE <<"formatted_" \o ToString(j), ".docx">>

\* run_job recording a failed result without the error message
FinishRunNoError(jrec, j, result) ==
    IF result.success
    THEN [jrec EXCEPT !.result = Some(result),
                      !.status = COMPLETED,
                      !.output_bytes = result.docx_bytes,
                      !.output_filename = Some(_generate_output_filename(jrec, j))]
    ELSE [jrec EXCEPT !.result = Some(result),
                      !.status = FAILED]

\* run_job after the compile call returned `result`
FinishRun(jrec, j, result) ==
    IF result.success
    THEN [jrec EXCEPT !.result = Some(result),
                      !.status = COMPLETED,
                      !.output_bytes = result.docx_bytes,
                      !.output_filename = Some(_generate_output_filename(jrec, j))]
    ELSE [jrec EXCEPT !.result = Some(result),
                      !.status = FAILED,
                      !.error = result.error]

\* run_job on entering the two `async with` blocks
StartRun(jrec) == [jrec EXCEPT !.status = RUNNING]

\* the gate admitting one task more than it has permits
SemaphoreLockedOffByOne == _semaphore < 0 \/ _waiters # <<>>

\* asyncio.Semaphore.locked(): acquire() suspends when this holds
SemaphoreLocked == _semaphore = 0 \/ _waiters # <<>>

\* asyncio.Semaphore.release() by a task that leaves `async with`; sv is the
\* value of the semaphore while that task holds its permit and tk the task
\* table after the leaving task's own update.
SemaphoreRelease(sv, tk) ==
    IF _waiters = <<>>
    THEN /\ _semaphore' = sv + 1
         /\ _waiters' = _waiters
         /\ task' = tk
    ELSE /\ _semaphore' = sv
         /\ _waiters' = Tail(_waiters)
         /\ task' = [tk EXCEPT ![Head(_waiters)].pc = "granted"]

\* The events and the result of the part of the compile that runs without
\* suspension: the synchronous compile_document, or compile_document_with_ai
\* on Markdown input (no AI round-trip), with the fallback when parsing raises.
WholeCompile(ai, oc, parse_raises) ==
    IF ~ai
    THEN [events |-> compile_document_events(oc.failAt, oc.fix),
          result |-> ResultOf(oc)]
    ELSE IF parse_raises
    THEN [events |-> <<Ev("parse", 0, 1), Ev("parse", 5, 10)>>
                     \o compile_document_events(oc.failAt, oc.fix),
          result |-> FallbackFailure]
    ELSE [events |-> <<Ev("parse", 0, 1), Ev("parse", 1, 1)>>
                     \o compile_from_ast_events(oc.failAt, oc.fix),
          result |-> ResultOf(oc)]

\* The part of compile_document_with_ai after the AI round-trip returned.
RestOfAICompile(oc, parse_raises) ==
    IF parse_raises
    THEN [events |-> <<Ev("parse", 5, 10)>>
                     \o compile_document_events(oc.failAt, oc.fix),
          result |-> FallbackFailure]
    ELSE [events |-> <<Ev("parse", 1, 1)>>
                     \o compile_from_ast_events(oc.failAt, oc.fix),
          result |-> ResultOf(oc)]

\* run_job from the acquisition of the gate up to its first suspension (the
\* AI round-trip on plain text) or its return.
RunBody(j, sv, oc, parse_raises) ==
    IF j \notin _job_locks
    THEN \* self._job_locks[job_id] raises KeyError; the gate is released
         /\ job' = job
         /\ lock_held' = lock_held
         /\ SemaphoreRelease(sv, [task EXCEPT ![j].pc = "raised"])
    ELSE IF task[j].ai /\ task[j].fmt = "plaintext"
    THEN /\ job' = [job EXCEPT ![j] =
                      progress_callback(StartRun(@),
                          <<Ev("parse", 0, 1), Ev("parse", 3, 10)>>)]
         /\ lock_held' = [lock_held EXCEPT ![j] = TRUE]
         /\ _semaphore' = sv
         /\ _waiters' = _waiters
         /\ task' = [task EXCEPT ![j].pc = "ai_await"]
    ELSE LET c == WholeCompile(task[j].ai, oc, parse_raises)
         IN  /\ job' = [job EXCEPT ![j] =
                          FinishRun(progress_callback(StartRun(@), c.events),
                                    j, c.result)]
             /\ lock_held' = lock_held
             /\ SemaphoreRelease(sv, [task EXCEPT ![j].pc = "done"])

\* ------------------------------------------------------------------------
\* Job manager operations
\* ------------------------------------------------------------------------
JobInit ==
    /\ max_concurrent_jobs \in 1..MaxGate
    /\ _jobs = {}
    /\ _job_locks = {}
    /\ lock_held = [j \in JobIds |-> FALSE]
    /\ _semaphore = max_concurrent_jobs
    /\ _waiters = <<>>
    /\ job = [j \in JobIds |-> NoJob]
    /\ task = [j \in JobIds |-> [pc |-> "none", ai |-> FALSE, fmt |-> "plaintext"]]

\* create_job, followed by background_tasks.add_task(run_job) in the routes
CreateJob(j, ai, fmt, fname) ==
    /\ job[j].status = NotCreated
    /\ \A k \in JobIds : k < j => job[k].status # NotCreated
    /\ job' = [job EXCEPT ![j] = NewJob(fname)]
    /\ _jobs' = _jobs \cup {j}
    /\ _job_locks' = _job_locks \cup {j}
    /\ lock_held' = [lock_held EXCEPT ![j] = FALSE]
    /\ task' = [task EXCEPT ![j] = [pc |-> "scheduled", ai |-> ai, fmt |-> fmt]]
    /\ UNCHANGED <<max_concurrent_jobs, _semaphore, _waiters, streamVars, pureVars>>

\* run_job: the background task starts
RunJob(j, oc, parse_raises) ==
    /\ task[j].pc = "scheduled"
    /\ IF j \notin _jobs
       THEN \* raise ValueError("Job not found")
            /\ task' = [task EXCEPT ![j].pc = "raised"]
            /\ UNCHANGED <<job, lock_held, _semaphore, _waiters>>
       ELSE IF SemaphoreLocked
       THEN /\ _waiters' = Append(_waiters, j)
            /\ task' = [task EXCEPT ![j].pc = "wait_sem"]
            /\ UNCHANGED <<job, lock_held, _semaphore>>
       ELSE RunBody(j, _semaphore - 1, oc, parse_raises)
    /\ UNCHANGED <<max_concurrent_jobs, _jobs, _job_locks, streamVars, pureVars>>

\* run_job: the task resumes with the permit a release handed to it
RunJobGranted(j, oc, parse_raises) ==
    /\ task[j].pc = "granted"
    /\ RunBody(j, _semaphore, oc, parse_raises)
    /\ UNCHANGED <<max_concurrent_jobs, _jobs, _job_locks, streamVars, pureVars>>

\* run_job: the AI round-trip of compile_document_with_ai returned
RunJobAfterAI(j, oc, parse_raises) ==
    /\ task[j].pc = "ai_await"
    /\ LET c == RestOfAICompile(oc, parse_raises)
       IN  job' = [job EXCEPT ![j] =
                     FinishRun(progress_callback(@, c.events), j, c.result)]
    /\ lock_held' = [lock_held EXCEPT ![j] = FALSE]
    /\ SemaphoreRelease(_semaphore, [task EXCEPT ![j].pc = "done"])
    /\ UNCHANGED <<max_concurrent_jobs, _jobs, _job_locks, streamVars, pureVars>>

\* cancel_job returning True
cancel_job(j) ==
    /\ j \in _jobs
    /\ job[j].status \in {PENDING, RUNNING}
    /\ job' = [job EXCEPT ![j].status = CANCELLED]
    /\ UNCHANGED <<max_concurrent_jobs, _jobs, _job_locks, lock_held,
                   _semaphore, _waiters, task, streamVars, pureVars>>

\* delete_job returning True
delete_job(j) ==
    /\ j \in _jobs
    /\ _jobs' = _jobs \ {j}
    /\ _job_locks' = _job_locks \ {j}
    /\ UNCHANGED <<max_concurrent_jobs, lock_held, _semaphore, _waiters,
                   job, task, streamVars, pureVars>>

\* shutdown
shutdown ==
    /\ _jobs # {}
    /\ job' = [j \in JobIds |->
                 IF j \in _jobs /\ job[j].status = RUNNING
                 THEN [job[j] EXCEPT !.status = CANCELLED,
                                     !.error = Some("shutdown")]
                 ELSE job[j]]
    /\ _jobs' = {}
    /\ UNCHANGED <<max_concurrent_jobs, _job_locks, lock_held, _semaphore,
                   _waiters, task, streamVars, pureVars>>


\* ------------------------------------------------------------------------
\* stream_progress: one subscriber.  The generator is suspended at each yield
\* (st_pc = "yield"), at asyncio.sleep (st_pc = "sleep") and after its last
\* event (st_pc = "done").
\* ------------------------------------------------------------------------
StreamInit ==
    /\ st_pc = "unsubscribed"
    /\ st_job = 0
    /\ st_new = <<>>
    /\ st_pos = 0
    /\ st_last = 0
    /\ st_out = <<>>

ProgressEvent(p) == [event |-> "progress", data |-> p]
ErrorEvent(msg) == [event |-> "error", data |-> [message |-> msg]]
CompletedEvent(j, jrec) ==
    [event |-> "completed",
     data |-> [job_id |-> j, filename |-> jrec.output_filename]]
CancelledEvent == [event |-> "cancelled", data |-> [message |-> "Job was cancelled"]]

\* last_progress_count assigned after the for loop over new_progress
CountAfterLoop(jrec) == Len(jrec.progress_history)

\* stream_progress from the end of the for loop to the next suspension
StreamAfterLoop(j) ==
    LET jrec == job[j] IN
    /\ st_last' = CountAfterLoop(jrec)
    /\ st_new' = <<>>
    /\ st_pos' = 0
    /\ IF jrec.status = COMPLETED
       THEN /\ st_out' = Append(st_out, CompletedEvent(j, jrec))
            /\ st_pc' = "done"
       ELSE IF jrec.status = FAILED
       THEN /\ st_out' = Append(st_out,
                           ErrorEvent(IF jrec.error # None THEN jrec.error[1]
                                      ELSE "Unknown error"))
            /\ st_pc' = "done"
       ELSE IF jrec.status = CANCELLED
       THEN /\ st_out' = Append(st_out, CancelledEvent)
            /\ st_pc' = "done"
       ELSE /\ st_out' = st_out
            /\ st_pc' = "sleep"

\* stream_progress polling on when the job is gone from the table
StreamLoopTopKeepsPolling(j) ==
    IF j \notin _jobs
    THEN /\ st_pc' = "sleep"
         /\ UNCHANGED <<st_out, st_new, st_pos, st_last>>
    ELSE LET new_progress == SubSeq(job[j].progress_history, st_last + 1,
                                    Len(job[j].progress_history))
         IN  IF new_progress # <<>>
             THEN /\ st_new' = new_progress
                  /\ st_pos' = 1
                  /\ st_out' = Append(st_out, ProgressEvent(new_progress[1]))
                  /\ st_pc' = "yield"
                  /\ st_last' = st_last
             ELSE StreamAfterLoop(j)

\* stream_progress from the top of `while True` to the next suspension
StreamLoopTop(j) ==
    IF j \notin _jobs
    THEN /\ st_out' = Append(st_out, ErrorEvent("Job disappeared"))
         /\ st_pc' = "done"
         /\ UNCHANGED <<st_new, st_pos, st_last>>
    ELSE LET new_progress == SubSeq(job[j].progress_history, st_last + 1,
                                    Len(job[j].progress_history))
         IN  IF new_progress # <<>>
             THEN /\ st_new' = new_progress
                  /\ st_pos' = 1
                  /\ st_out' = Append(st_out, ProgressEvent(new_progress[1]))
                  /\ st_pc' = "yield"
                  /\ st_last' = st_last
             ELSE StreamAfterLoop(j)

\* the subscriber starts iterating stream_progress(j)
StreamStart(j) ==
    /\ st_pc = "unsubscribed"
    /\ st_job' = j
    /\ IF j \notin _jobs
       THEN /\ st_out' = Append(st_out, ErrorEvent("Job not found"))
            /\ st_pc' = "done"
            /\ UNCHANGED <<st_new, st_pos, st_last>>
       ELSE StreamLoopTop(j)
    /\ UNCHANGED <<jobVars, pureVars>>

\* the subscriber asks for the next event after a progress event
StreamNext ==
    /\ st_pc = "yield"
    /\ IF st_pos < Len(st_new)
       THEN /\ st_out' = Append(st_out, ProgressEvent(st_new[st_pos + 1]))
            /\ st_pos' = st_pos + 1
            /\ UNCHANGED <<st_pc, st_new, st_last>>
       ELSE StreamAfterLoop(st_job)
    /\ UNCHANGED <<st_job, jobVars, pureVars>>

\* asyncio.sleep(poll_interval) returns
StreamWake ==
    /\ st_pc = "sleep"
    /\ StreamLoopTop(st_job)
    /\ UNCHANGED <<st_job, jobVars, pureVars>>

\* ------------------------------------------------------------------------
\* Specification of the job manager
\* ------------------------------------------------------------------------
\* The requests the routes turn into jobs: use_ai_recognition, the format of
\* the text and the uploaded file's name (None on the text route).
JobRequests ==
    { [ai |-> FALSE, fmt |-> "markdown", fname |-> None],
      [ai |-> TRUE, fmt |-> "markdown", fname |-> Some("thesis")],
      [ai |-> TRUE, fmt |-> "plaintext", fname |-> None] }

Init == JobInit /\ StreamInit /\ FixIdle /\ CompileIdle /\ ZipIdle /\ ParseIdle /\ SchemaIdle /\ ClassIdle

\* the operations of the job manager on the jobs of J
JobNext(J) ==
    \/ \E j \in J, rq \in JobRequests : CreateJob(j, rq.ai, rq.fmt, rq.fname)
    \/ \E j \in J, oc \in CompileOutcomes, pr \in BOOLEAN : RunJob(j, oc, pr)
    \/ \E j \in J, oc \in CompileOutcomes, pr \in BOOLEAN : RunJobGranted(j, oc, pr)
    \/ \E j \in J, oc \in CompileOutcomes, pr \in BOOLEAN : RunJobAfterAI(j, oc, pr)
    \/ \E j \in J : cancel_job(j)
    \/ \E j \in J : delete_job(j)
    \/ shutdown

StreamNextStep(J) ==
    \/ \E j \in J : StreamStart(j)
    \/ StreamNext
    \/ StreamWake

\* Job manager without subscribers
Next == JobNext(JobIds)

Spec == Init /\ [][Next]_vars

\* The job manager under the scheduling of asyncio: every run_job task that
\* can take a step takes it (a scheduled task starts, a task handed a permit
\* resumes) and every compile invocation terminates (the AI round-trip
\* returns).
FairJobs ==
    \A j \in JobIds :
        /\ WF_vars(\E oc \in CompileOutcomes, pr \in BOOLEAN : RunJob(j, oc, pr))
        /\ WF_vars(\E oc \in CompileOutcomes, pr \in BOOLEAN : RunJobGranted(j, oc, pr))
        /\ WF_vars(\E oc \in CompileOutcomes, pr \in BOOLEAN : RunJobAfterAI(j, oc, pr))

SpecLive == Init /\ [][Next]_vars /\ FairJobs

\* Job manager with one stream_progress subscriber, on a single job (the
\* gate is never contended, so no task is ever handed a permit)
StreamJobIds == {1}

NextStream ==
    \/ \E j \in StreamJobIds, rq \in JobRequests :
          CreateJob(j, rq.ai, rq.fmt, rq.fname)
    \/ \E j \in StreamJobIds, oc \in CompileOutcomes, pr \in BOOLEAN :
          RunJob(j, oc, pr)
    \/ \E j \in StreamJobIds, oc \in CompileOutcomes, pr \in BOOLEAN :
          RunJobAfterAI(j, oc, pr)
    \/ \E j \in StreamJobIds : cancel_job(j)
    \/ \E j \in StreamJobIds : delete_job(j)
    \/ shutdown
    \/ \E j \in StreamJobIds : StreamStart(j)
    \/ StreamNext
    \/ StreamWake

SpecStream == Init /\ [][NextStream]_vars

\* The same with the scheduling of asyncio: the consumer of the stream keeps
\* asking for the next event, sleep() returns, and a scheduled run_job runs
\* and its AI round-trip returns.
FairStream ==
    /\ WF_vars(StreamNext)
    /\ WF_vars(StreamWake)
    /\ WF_vars(\E j \in StreamJobIds, oc \in CompileOutcomes, pr \in BOOLEAN :
                  RunJob(j, oc, pr))
    /\ WF_vars(\E j \in StreamJobIds, oc \in CompileOutcomes, pr \in BOOLEAN :
                  RunJobAfterAI(j, oc, pr))

SpecStreamLive == Init /\ [][NextStream]_vars /\ FairStream

TypeOK ==
    /\ _jobs \subseteq JobIds
    /\ _semaphore \in 0..max_concurrent_jobs
    /\ \A j \in JobIds : job[j].status \in
          {NotCreated, PENDING, RUNNING, COMPLETED, FAILED, CANCELLED}


\* ------------------------------------------------------------------------
\* Specification of the validator and the fixer
\* ------------------------------------------------------------------------
JobIdle ==
    /\ max_concurrent_jobs = 1
    /\ _jobs = {}
    /\ _job_locks = {}
    /\ lock_held = [j \in JobIds |-> FALSE]
    /\ _semaphore = 1
    /\ _waiters = <<>>
    /\ job = [j \in JobIds |-> NoJob]
    /\ task = [j \in JobIds |-> [pc |-> "none", ai |-> FALSE, fmt |-> "plaintext"]]

InitFix == JobIdle /\ StreamInit /\ FixInit /\ CompileIdle /\ ZipIdle /\ ParseIdle /\ SchemaIdle /\ ClassIdle

NextFix ==
    \/ Validate
    \/ FixDocx
    \/ \E patch \in TestPatches : ApplyPatch(patch)
    \/ \E n \in 1..MaxViolations : ApplySuggestion(n)

SpecFix == InitFix /\ [][NextFix]_vars

\* ------------------------------------------------------------------------
\* Specification of the compiler
\* ------------------------------------------------------------------------
\* what render_docx may return
RenderedDocs == Docs(MaxRenderLen)

Parse(raises) ==
    /\ compile.pc = "parse"
    /\ compile.frame \in {"compile_document", "fallback"}
    /\ compile' = ParsePhase(compile, raises)
    /\ UNCHANGED <<jobVars, streamVars, fixVars, zipVars, parseVars, schemaVars, classVars>>

AIParse(raises) ==
    /\ compile.pc = "parse"
    /\ compile.frame = "with_ai"
    /\ compile' = AIParsePhase(compile, raises)
    /\ UNCHANGED <<jobVars, streamVars, fixVars, zipVars, parseVars, schemaVars, classVars>>

LoadSpec ==
    /\ compile.pc = "spec"
    /\ compile' = SpecPhase(compile)
    /\ UNCHANGED <<jobVars, streamVars, fixVars, zipVars, parseVars, schemaVars, classVars>>

Template(raises) ==
    /\ compile.pc = "template"
    /\ compile' = TemplatePhase(compile, raises)
    /\ UNCHANGED <<jobVars, streamVars, fixVars, zipVars, parseVars, schemaVars, classVars>>

Render(raises, d) ==
    /\ compile.pc = "render"
    /\ compile' = RenderPhase(compile, raises, d)
    /\ UNCHANGED <<jobVars, streamVars, fixVars, zipVars, parseVars, schemaVars, classVars>>

ValidateRendered ==
    /\ compile.pc = "validate"
    /\ compile' = ValidatePhase(compile)
    /\ UNCHANGED <<jobVars, streamVars, fixVars, zipVars, parseVars, schemaVars, classVars>>

FixEnter ==
    /\ compile.pc = "fixcheck"
    /\ compile' = FixPhaseEnter(compile)
    /\ UNCHANGED <<jobVars, streamVars, fixVars, zipVars, parseVars, schemaVars, classVars>>

FixStep ==
    /\ compile.pc = "fixloop"
    /\ compile' = FixIteration(compile)
    /\ UNCHANGED <<jobVars, streamVars, fixVars, zipVars, parseVars, schemaVars, classVars>>

FixExit ==
    /\ compile.pc = "fixend"
    /\ compile' = FixPhaseExit(compile)
    /\ UNCHANGED <<jobVars, streamVars, fixVars, zipVars, parseVars, schemaVars, classVars>>

Done ==
    /\ compile.pc = "done"
    /\ compile' = DonePhase(compile)
    /\ UNCHANGED <<jobVars, streamVars, fixVars, zipVars, parseVars, schemaVars, classVars>>

Await ==
    /\ compile.pc = "await"
    /\ compile' = AwaitFallback(compile)
    /\ UNCHANGED <<jobVars, streamVars, fixVars, zipVars, parseVars, schemaVars, classVars>>

\* a statement of the current phase, or the progress callback called by
\* notify, raises e before the phase has published anything
Raises(e) ==
    /\ compile.pc \in {"parse", "spec", "template", "render", "validate",
                       "fixcheck", "fixloop", "fixend", "done"}
    /\ compile.pc = "fixcheck" =>
           compile.options.auto_fix /\ ~compile.report[1].summary.ok
    /\ compile' = Raise(compile, e)
    /\ UNCHANGED <<jobVars, streamVars, fixVars, zipVars, parseVars, schemaVars, classVars>>

InitCompile == JobIdle /\ StreamInit /\ FixIdle /\ CompileInit /\ ZipIdle /\ ParseIdle /\ SchemaIdle /\ ClassIdle

NextCompile ==
    \/ \E raises \in BOOLEAN : Parse(raises)
    \/ \E raises \in BOOLEAN : AIParse(raises)
    \/ LoadSpec
    \/ \E raises \in BOOLEAN : Template(raises)
    \/ \E raises \in BOOLEAN, d \in RenderedDocs : Render(raises, d)
    \/ ValidateRendered
    \/ FixEnter
    \/ FixStep
    \/ FixExit
    \/ Done
    \/ Await
    \/ \E e \in {"callback error", "phase error"} : Raises(e)

SpecCompile == InitCompile /\ [][NextCompile]_vars

\* ------------------------------------------------------------------------
\* Specification of the zip container
\* ------------------------------------------------------------------------
InitZip == JobIdle /\ StreamInit /\ FixIdle /\ CompileIdle /\ ZipInit /\ ParseIdle /\ SchemaIdle /\ ClassIdle

NextZip ==
    \/ Tick
    \/ ToBytes

SpecZip == InitZip /\ [][NextZip]_vars

\* C17: two serializations of the same member map are the same bytes,
\* whatever the times at which they were made.
C17_ToBytesDeterministic ==
    \A m, n \in 1..Len(zp_out) : zp_out[m].bytes = zp_out[n].bytes

\* ------------------------------------------------------------------------
\* Specification of the parse phase
\* ------------------------------------------------------------------------
InitParse == JobIdle /\ StreamInit /\ FixIdle /\ CompileIdle /\ ZipIdle /\ ParseInit /\ SchemaIdle /\ ClassIdle

NextParse ==
    \/ ParseText("auto")
    \/ ParseText("markdown")
    \/ ParseText("plaintext")

SpecParse == InitParse /\ [][NextParse]_vars

\* ------------------------------------------------------------------------
\* Specification of validate_custom_spec
\* ------------------------------------------------------------------------
InitSchema == JobIdle /\ StreamInit /\ FixIdle /\ CompileIdle /\ ZipIdle /\ ParseIdle /\ SchemaInit /\ ClassIdle

NextSchema == ValidateCustomSpec

SpecSchema == InitSchema /\ [][NextSchema]_vars

\* ------------------------------------------------------------------------
\* Specification of the paragraph classification
\* ------------------------------------------------------------------------
InitClassify ==
    JobIdle /\ StreamInit /\ FixIdle /\ CompileIdle /\ ZipIdle /\ ParseIdle
    /\ SchemaIdle /\ ClassInit

NextClassify == \E ai \in AIOutcomes : AiIdentify(ai)

SpecClassify == InitClassify /\ [][NextClassify]_vars

\* ------------------------------------------------------------------------
\* Claims about the paragraph classification
\* ------------------------------------------------------------------------
\* the response is JSON for a list of objects that each have index and type
IsIndexTypeList(ai) ==
    /\ ~ai.raises
    /\ ai.json # None
    /\ ai.json[1].kind = "list"
    /\ \A n \in 1..Len(ai.json[1].items) :
          /\ ai.json[1].items[n].kind = "object"
          /\ ai.json[1].items[n].index # None
          /\ ai.json[1].items[n].type # None

\* C24: ai_identify_paragraph_types returns a list in every case, and when
\* the AI call raised or its response is not JSON for a list of
\* {index, type} objects, the list gives every input paragraph, in input
\* order, the type of the regex classifier identify_paragraph_type.
C24_FallbackToRegex ==
    (cl_pc = "done" /\ ~IsIndexTypeList(cl_ai[1]))
    => /\ Len(cl_out[1]) = Len(cl_paras)
       /\ \A n \in 1..Len(cl_paras) :
             cl_out[1][n] = Identified(cl_paras[n], identify_paragraph_type(cl_paras[n]))

\* the paragraph begins with a number of exactly k parts
BeginsWithNumber(t, k) ==
    StartsWith(strip(t), NumberOfParts(k)) /\ ~StartsWith(strip(t), NumberOfParts(k + 1))
    /\ (Len(strip(t)) > 2 * k - 1 => strip(t)[2 * k] \notin Digits)

\* C26: the regex classifier (reached when the AI call raised) gives
\* heading_2 to a paragraph that begins with a two-part number such as
\* '1.1 Title' and heading_3 to one that begins with a three-part number
\* such as '1.1.1 Title'.
C26_NumberedHeadingLevels ==
    (cl_pc = "done" /\ cl_ai[1].raises)
    => \A n \in 1..Len(cl_paras) :
          /\ BeginsWithNumber(cl_paras[n], 2) => cl_out[1][n].type = "heading_2"
          /\ BeginsWithNumber(cl_paras[n], 3) => cl_out[1][n].type = "heading_3"

\* ------------------------------------------------------------------------
\* Claims about the StyleSpec schema
\* ------------------------------------------------------------------------
\* C21: every StyleSpec validate_custom_spec returns with a numbering has
\* each numbering level bound to a style_id that is a key of styles; a
\* spec_json with a level bound to an undefined style is rejected.
C21_NumberingReferencesDefinedStyles ==
    (sc_pc = "done" /\ sc_result[1].ok /\ sc_result[1].spec.numbering # None)
    => \A n \in 1..Len(sc_result[1].spec.numbering[1]) :
          sc_result[1].spec.numbering[1][n].style_id \in sc_result[1].spec.styles

HasViolation(report, id) ==
    \E n \in 1..Len(report.violations) : report.violations[n].violation_id = id

HasAction(patch, name) ==
    \E n \in 1..Len(patch.actions) : patch.actions[n].action = name

RECURSIVE RunAfter(_, _)
RunAfter(blocks, h) ==
    IF /\ h + 1 <= Len(blocks)
       /\ blocks[h + 1].type = "paragraph"
       /\ MatchesRefNumber(strip(blocks[h + 1].text))
    THEN <<strip(blocks[h + 1].text)>> \o RunAfter(blocks, h + 1)
    ELSE <<>>

\* C18: a DocAST of parse_markdown_to_ast has at most one Bibliography
\* block; each one comes right after a level-1 heading with a references
\* title and holds exactly the run of [n]-prefixed paragraphs that followed
\* such a heading in the source.
C18_BibliographyOnceAfterHeading ==
    (ps_ast # None /\ ps_format[1].used = "markdown") =>
        LET ast == ps_ast[1]
            src == BlocksOfNodes(ps_nodes[1])
            bibs == {n \in 1..Len(ast) : ast[n].type = "bibliography"}
        IN  /\ Cardinality(bibs) <= 1
            /\ \A n \in bibs :
                  /\ n > 1
                  /\ IsRefHeading(ast[n - 1])
                  /\ \E h \in 1..Len(src) :
                        /\ IsRefHeading(src[h])
                        /\ ast[n].items = RunAfter(src, h)

\* C19: with input_format left at auto, the text "# A\n\nhello\n" parses as
\* a level-1 Heading A followed by a Paragraph hello.
C19_HeadingThenParagraph ==
    (/\ ps_ast # None
     /\ ps_format[1].option = "auto"
     /\ ps_text = <<"#", " ", "A", "\n", "\n", "hello", "\n">>)
    => ps_ast[1] = <<HeadingBlock(1, <<"A">>), ParagraphBlock(<<"hello">>)>>

\* C20: every Heading of parse_plaintext_heuristic has a non-empty title that
\* is the text after the heading number of one of the lines.
C20_HeadingHasTitle ==
    (ps_ast # None /\ ps_format[1].used = "plaintext") =>
        \A n \in 1..Len(ps_ast[1]) :
            ps_ast[1][n].type = "heading" =>
                /\ ps_ast[1][n].text # <<>>
                /\ \E k \in 1..Len(front_matter_body(ps_text)) :
                      LET l == lstrip(front_matter_body(ps_text)[k])
                      IN  \E e \in 1..Len(l) :
                             /\ IsHeadingNumber(SubSeq(l, 1, e))
                             /\ e < Len(l)
                             /\ IsSpace(l[e + 1])
                             /\ ps_ast[1][n].text = strip(SubSeq(l, e + 1, Len(l)))

\* ------------------------------------------------------------------------
\* Claims about the compiler
\* ------------------------------------------------------------------------
\* C7: when AI-assisted parsing raised, compile_document ran once as the
\* fallback and the call returns what it returned (success and document),
\* with the fallback annotation among the warnings.
C7_FallbackResultReturned ==
    (/\ compile.pc = "returned"
     /\ compile.entry = "compile_document_with_ai"
     /\ compile.error # None)
    => /\ Len(compile.fallback) = 1
       /\ compile.result[1].success = compile.fallback[1].success
       /\ compile.result[1].docx_bytes = compile.fallback[1].docx_bytes
       /\ \E n \in 1..Len(compile.result[1].warnings) :
             compile.result[1].warnings[n] = FallbackAnnotation(compile.error[1])

\* C11: in both entry points, a successful result whose fix loop ended with
\* a report that is not ok carries a warning about the unresolved errors.
C11_UnresolvedErrorsWarned ==
    (/\ compile.pc = "returned"
     /\ compile.result[1].success
     /\ compile.options.auto_fix
     /\ ~compile.result[1].report[1].summary.ok)
    => \E n \in 1..Len(compile.result[1].warnings) :
          compile.result[1].warnings[n] = "errors remain after auto fix"

\* position of a phase in CompilePhase order
PhaseRank(ph) ==
    CASE ph = "parse" -> 1 [] ph = "spec" -> 2 [] ph = "template" -> 3
      [] ph = "render" -> 4 [] ph = "validate" -> 5 [] ph = "fix" -> 6
      [] ph = "done" -> 7

FixEventCount(events) ==
    Cardinality({n \in 1..Len(events) : events[n].phase = "fix"})

\* C12: in a run of compile_document the phases of the published events
\* never go back in the order parse, spec, template, render, validate, fix,
\* done; a done event is the last one; a fix event is published only by a
\* fix phase that was entered (auto_fix on and the report not ok).
C12_PhasesInOrder ==
    /\ [](compile.entry = "compile_document" =>
            /\ \A m, n \in 1..Len(compile.events) :
                  m < n => PhaseRank(compile.events[m].phase)
                              <= PhaseRank(compile.events[n].phase)
            /\ \A n \in 1..Len(compile.events) :
                  compile.events[n].phase = "done" => n = Len(compile.events))
    /\ [][(/\ compile.entry = "compile_document"
           /\ FixEventCount(compile'.events) > FixEventCount(compile.events))
          => \/ compile.pc \in {"fixloop", "fixend"}
             \/ /\ compile.pc = "fixcheck"
                /\ compile.options.auto_fix
                /\ ~compile.report[1].summary.ok]_vars

\* C12 witness: a run of compile_document returned after a fix phase, its
\* events ending with fix events and then done.
C12_Witness ==
    /\ compile.entry = "compile_document"
    /\ compile.pc = "returned"
    /\ compile.result[1].success
    /\ FixEventCount(compile.events) >= 3
    /\ compile.events[Len(compile.events)].phase = "done"

\* C13: compile_document never lets an exception out: once a phase or the
\* callback has raised, the call has returned success = false with the
\* exception message as error, no docx bytes and the warnings gathered so far.
C13_CompileNeverRaises ==
    compile.entry = "compile_document" =>
        /\ compile.pc # "raised"
        /\ compile.raised # <<>> =>
              /\ compile.pc = "returned"
              /\ Len(compile.raised) = 1
              /\ ~compile.result[1].success
              /\ compile.result[1].error = Some(compile.raised[1])
              /\ compile.result[1].docx_bytes = None
              /\ compile.result[1].warnings = compile.warnings

\* C13 witness: the callback raised at notify(DONE) after a fix phase that
\* left errors, and the failure result carries the warning.
C13_Witness ==
    /\ compile.entry = "compile_document"
    /\ compile.pc = "returned"
    /\ compile.raised = <<"callback error">>
    /\ compile.result[1].warnings = <<"errors remain after auto fix">>
    /\ ~compile.result[1].success

\* C30: in a successful result of compile_document or _compile_from_ast,
\* fix_docx has been called only if auto_fix is on and the report of the
\* rendered document has an error; with auto_fix off or a report of warnings
\* only, fix_docx was not called, the docx bytes returned are the renderer's
\* output and the report returned is the report of that output.
C30_FixOnlyOnErrors ==
    (compile.pc = "returned" /\ compile.result[1].success)
    => LET first == validate_docx(compile.rendered[1], compile.spec[1])
       IN  /\ compile.fix_calls > 0
                 => (compile.options.auto_fix /\ first.summary.errors > 0)
           /\ (~compile.options.auto_fix \/ first.summary.errors = 0)
                 => /\ compile.fix_calls = 0
                    /\ compile.result[1].docx_bytes = compile.rendered
                    /\ compile.result[1].report = Some(first)

\* C30 witness: with auto_fix on, a rendered document whose report has
\* warnings with suggestions and no error was returned as rendered.
C30_Witness ==
    /\ compile.pc = "returned"
    /\ compile.result[1].success
    /\ compile.options.auto_fix
    /\ compile.options.max_fix_iterations > 0
    /\ compile.result[1].report[1].summary.errors = 0
    /\ compile.result[1].report[1].summary.warnings > 0
    /\ build_patch_from_report(compile.result[1].report[1]).actions # <<>>
    /\ compile.fix_calls = 0
    /\ compile.result[1].docx_bytes = compile.rendered

\* C10: fix_docx is called only with auto_fix on and a report that is not ok,
\* and at most max_fix_iterations times in one run of the fix loop.
C10_FixLoopBounded ==
    [][compile'.fix_calls > compile.fix_calls
       => /\ compile.options.auto_fix
          /\ ~compile.report[1].summary.ok
          /\ compile'.fix_calls <= compile.options.max_fix_iterations]_vars

\* C10 witness: the loop ran max_fix_iterations >= 2 times without reaching
\* an ok report.
C10_Witness ==
    /\ compile.pc = "fixend"
    /\ compile.options.max_fix_iterations >= 2
    /\ compile.fix_calls = compile.options.max_fix_iterations
    /\ ~compile.report[1].summary.ok

\* ------------------------------------------------------------------------
\* Claims about the validator and the fixer
\* ------------------------------------------------------------------------
\* C8: apply_patch is idempotent: the document a patch produced is not
\* changed by applying the same patch to it again.
C8_ApplyPatchIdempotent ==
    fx_patch # None => apply_patch(fx_doc, fx_patch[1], fx_spec) = fx_doc

\* C16: apply_patch with the single action insert_toc_field(max_level) adds
\* exactly one paragraph, styled FrontHeading and holding the TOC field for
\* levels 1..max_level, and when the body has an H1 / FrontHeading paragraph
\* the new paragraph sits immediately before the first of them.
C16_TocBeforeFirstHeading ==
    [][(/\ fx_n' = fx_n + 1
        /\ fx_prev' = None
        /\ fx_patch' # None
        /\ Len(fx_patch'[1].actions) = 1
        /\ fx_patch'[1].actions[1].action = "insert_toc_field")
       => LET old == fx_doc.body
              new == fx_doc'.body
              lvl == fx_patch'[1].actions[1].params.max_level
              heads == {n \in 1..Len(old) :
                           /\ old[n].tag = "p"
                           /\ old[n].style \in {"H1", "FrontHeading"}}
          IN  /\ Len(new) = Len(old) + 1
              /\ \E at \in 1..Len(new) :
                    /\ new[at].tag = "p"
                    /\ new[at].style = "FrontHeading"
                    /\ new[at].fld = Some([field |-> "TOC", levels |-> lvl])
                    /\ SubSeq(new, 1, at - 1) \o SubSeq(new, at + 1, Len(new)) = old
                    /\ heads # {} => at = SetMin(heads)]_vars

\* the pgMar validate_docx reads from the document, None when there is none
PgMarOf(doc) ==
    IF _find_sectpr(doc) = 0 THEN None
    ELSE doc.body[_find_sectpr(doc)].sectPr[1].pgMar

MarginReported(report, k) ==
    \E n \in 1..Len(report.violations) :
        /\ report.violations[n].violation_id = "layout.margin_" \o k
        /\ report.violations[n].suggestion # None
        /\ report.violations[n].suggestion[1].action = "set_page_margins"

Distance(a, b) == IF a < b THEN b - a ELSE a - b

\* C23: for each of top, bottom, left, right, gutter, header and footer, the
\* report of validate_docx has layout.margin_<k> with a set_page_margins
\* suggestion exactly when the pgMar value of the document is more than 10
\* twips away from the spec's value in twips; against Generic_CN (top 25 mm,
\* 1417 twips) a top of 1427 is accepted and a top of 1428 is reported.
C23_MarginTolerance ==
    (fx_pc = "validated" /\ PgMarOf(fx_doc) # None)
    => LET pgMar == PgMarOf(fx_doc)[1]
           report == fx_report[1]
       IN  /\ \A n \in 1..Len(MarginKeys) :
                 LET k == MarginKeys[n] IN
                 MarginReported(report, k)
                 <=> (/\ pgMar[k] # None
                      /\ Distance(pgMar[k][1], _mm_to_twips(ExpectedMM(fx_spec, k))) > 10)
           /\ (fx_spec = Generic_CN /\ pgMar["top"] = Some(1427))
                 => ~MarginReported(report, "top")
           /\ (fx_spec = Generic_CN /\ pgMar["top"] = Some(1428))
                 => MarginReported(report, "top")

\* C23 witness: a top margin 11 twips off was reported with its suggestion
\* while the other six keys, exact, were not.
C23_Witness ==
    /\ fx_pc = "validated"
    /\ fx_spec = Generic_CN
    /\ PgMarOf(fx_doc) # None
    /\ PgMarOf(fx_doc)[1]["top"] = Some(1428)
    /\ MarginReported(fx_report[1], "top")
    /\ \A n \in 2..Len(MarginKeys) : ~MarginReported(fx_report[1], MarginKeys[n])

\* the document after the first k actions of the patch
PatchedUpTo(doc, patch, k, spec) ==
    ApplyActions(doc, SubSeq(patch.actions, 1, k), 1, spec)

\* C28: in the patch build_patch_from_report builds from the report of
\* validate_docx, insert_toc_field occurs at most once and only as the last
\* action, and when an action with a paragraph_index is applied the
\* paragraphs of the document are those the validator indexed: the actions
\* before it have inserted or removed none.
C28_PatchIndicesStable ==
    fx_pc = "validated"
    => LET patch == build_patch_from_report(fx_report[1])
           n_act == Len(patch.actions)
       IN  /\ Cardinality({n \in 1..n_act :
                   patch.actions[n].action = "insert_toc_field"}) <= 1
           /\ \A n \in 1..n_act :
                 patch.actions[n].action = "insert_toc_field" => n = n_act
           /\ \A n \in 1..n_act :
                 "paragraph_index" \in DOMAIN patch.actions[n].params
                 => /\ all_paras(PatchedUpTo(fx_doc, patch, n - 1, fx_spec))
                         = all_paras(fx_doc)
                    /\ patch.actions[n].params.paragraph_index < Len(all_paras(fx_doc))

\* C28 witness: a patch that restyles paragraph 1, clears its direct
\* formatting and ends with insert_toc_field.
C28_Witness ==
    /\ fx_pc = "validated"
    /\ LET patch == build_patch_from_report(fx_report[1])
       IN  /\ Len(patch.actions) >= 3
           /\ patch.actions[Len(patch.actions)].action = "insert_toc_field"
           /\ \E n \in 1..Len(patch.actions) :
                 /\ patch.actions[n].action = "set_paragraph_style"
                 /\ patch.actions[n].params.paragraph_index = 1
           /\ \E n \in 1..Len(patch.actions) :
                 /\ patch.actions[n].action = "clear_direct_run_formatting"
                 /\ patch.actions[n].params.paragraph_index = 1

\* C29: for the built-in and the custom spec, after apply_patch with the
\* suggestion of one violation of the report, the report of the new document
\* has no violation with that id and location; in particular
\* set_paragraph_style(i, "Body") removes style.unknown_style of paragraph i.
C29_SuggestionResolvesViolation ==
    (fx_pc = "validated" /\ fx_target # None)
    => ~\E n \in 1..Len(fx_report[1].violations) :
           /\ fx_report[1].violations[n].violation_id = fx_target[1].violation_id
           /\ fx_report[1].violations[n].location = fx_target[1].location

\* C9: the report of a document produced by fix_docx has no more errors than
\* the report fix_docx was given.
C9_FixNeverAddsErrors ==
    (fx_pc = "validated" /\ fx_prev # None)
        => fx_report[1].summary.errors <= fx_prev[1].summary.errors

\* C9 witness: a report with errors was fixed and the new report has fewer.
C9_Witness ==
    /\ fx_pc = "validated"
    /\ fx_prev # None
    /\ fx_patch # None
    /\ fx_prev[1].summary.errors > 0
    /\ fx_report[1].summary.errors < fx_prev[1].summary.errors

\* ------------------------------------------------------------------------
\* Claims about the job manager
\* ------------------------------------------------------------------------
Rank(st) ==
    CASE st = NotCreated -> 0
      [] st = PENDING -> 1
      [] st = RUNNING -> 2
      [] OTHER -> 3

\* C1: the status of a job only moves forward along pending, running,
\* {completed | failed | cancelled}, and never changes once it is terminal.
C1_MonotonicStatus ==
    [][\A j \in JobIds :
         job'[j].status # job[j].status =>
            /\ job[j].status \notin TerminalStatus
            /\ Rank(job'[j].status) > Rank(job[j].status)]_vars

\* C2: a job cancelled by cancel_job while its run_job is suspended in the
\* compile is still cancelled when run_job returns, and result, output_bytes
\* and output_filename stay unset.
C2_CancelRunningDiscardsResult ==
    [][\A j \in JobIds :
         (/\ task[j].pc = "ai_await"
          /\ job[j].status = CANCELLED
          /\ j \in _jobs
          /\ task'[j].pc = "done")
         => /\ job'[j].status = CANCELLED
            /\ job'[j].result = None
            /\ job'[j].output_bytes = None
            /\ job'[j].output_filename = None]_vars

\* C3: a job cancelled while pending (run_job not started, or waiting for the
\* gate) never becomes running and the compile pipeline never runs for it.
C3_CancelPendingShortCircuits ==
    [][\A j \in JobIds :
         (/\ job[j].status = CANCELLED
          /\ task[j].pc \in {"scheduled", "wait_sem", "granted"})
         => /\ job'[j].status = CANCELLED
            /\ job'[j].progress_history = job[j].progress_history]_vars

\* C14: a run_job that returns without the job having been cancelled leaves
\* the job completed exactly when the compile result has success = TRUE, with
\* result, output_bytes (the result's docx bytes) and output_filename set, and
\* failed with the result's error otherwise; a returned run never leaves the
\* job running.
C14_RunEndsTerminal ==
    /\ [](\A j \in JobIds : task[j].pc = "done" => job[j].status # RUNNING)
    /\ [][\A j \in JobIds :
            (/\ task[j].pc # "done"
             /\ task'[j].pc = "done"
             /\ job[j].status \in {PENDING, RUNNING})
            => /\ job'[j].result # None
               /\ job'[j].status \in {COMPLETED, FAILED}
               /\ job'[j].status = COMPLETED <=> job'[j].result[1].success
               /\ job'[j].result[1].success =>
                     /\ job'[j].output_bytes = job'[j].result[1].docx_bytes
                     /\ job'[j].output_bytes # None
                     /\ job'[j].output_filename # None
               /\ ~job'[j].result[1].success =>
                     /\ job'[j].error = job'[j].result[1].error
                     /\ job'[j].error # None]_vars

\* C14 witness: one run has completed with its output and another has failed
\* with its error.
C14_Witness ==
    \E j, k \in JobIds :
        /\ task[j].pc = "done" /\ task[k].pc = "done"
        /\ job[j].status = COMPLETED /\ job[j].output_bytes # None
        /\ job[k].status = FAILED /\ job[k].error # None

\* C25: while the run_job task of a job holds the job's mutex (it is
\* suspended inside `async with self._job_locks[job_id]`), the job record is
\* written only by that task: a step of cancel_job, run_job or the progress
\* callback that changes the record of a locked job is a step of the holder.
C25_WritesUnderJobLock ==
    [][\A j \in JobIds :
         (lock_held[j] /\ _jobs' = _jobs /\ job'[j] # job[j])
         => task'[j] # task[j]]_vars

\* run_job(j) was invoked and found the job in the table
RunInvoked(j) == task[j].pc \in {"wait_sem", "granted", "ai_await"}

\* C27: every job whose run_job has been invoked (and has found the job)
\* eventually has a terminal status, also when it had to wait for a permit
\* of the gate behind other jobs.
C27_InvokedJobsTerminate ==
    \A j \in JobIds : RunInvoked(j) ~> (job[j].status \in TerminalStatus)

InPipeline(j) == task[j].pc = "ai_await"

\* C4: at most max_concurrent_jobs jobs are running or inside the compile
\* pipeline; with max_concurrent_jobs = 1 a job becomes running only when no
\* other job is running or inside the pipeline.
C4_BoundedConcurrency ==
    /\ [](/\ Cardinality({j \in JobIds : job[j].status = RUNNING})
             <= max_concurrent_jobs
          /\ Cardinality({j \in JobIds : InPipeline(j)}) <= max_concurrent_jobs)
    /\ [][\A j, k \in JobIds :
            (/\ j # k
             /\ max_concurrent_jobs = 1
             /\ job[j].status # RUNNING
             /\ job'[j].status = RUNNING)
            => /\ ~InPipeline(k)
               /\ job[k].status \in {NotCreated, PENDING} \cup TerminalStatus]_vars

\* C4 witness: with a gate of one permit, one job is inside the pipeline and
\* another one waits for the gate.
C4_Witness ==
    /\ max_concurrent_jobs = 1
    /\ \E j, k \in JobIds :
          /\ InPipeline(j)
          /\ job[j].status = RUNNING
          /\ task[k].pc = "wait_sem"
          /\ job[k].status = PENDING

RECURSIVE Delivered(_)
Delivered(out) ==
    IF out = <<>> THEN <<>>
    ELSE IF out[1].event = "progress"
         THEN <<out[1].data>> \o Delivered(Tail(out))
         ELSE Delivered(Tail(out))

\* the last event received reports the job's terminal status
StatusEvent(e) ==
    \/ e.event \in {"completed", "cancelled"}
    \/ e.event = "error" /\ e.data.message \notin {"Job not found", "Job disappeared"}

\* C5: when the generator yields the terminal event, the subscriber has
\* received every event of the job's progress_history, once and in order.
C5_StreamDeliversAll ==
    [][(/\ st_pc # "done"
        /\ st_pc' = "done"
        /\ StatusEvent(st_out'[Len(st_out')]))
       => Delivered(st_out') = job'[st_job'].progress_history]_vars

\* C6: one terminal event ends the stream, and no progress event is appended
\* to the job's history after it was yielded.
C6_TerminalEventIsLast ==
    [][(/\ st_pc = "done"
        /\ StatusEvent(st_out[Len(st_out)]))
       => /\ st_out' = st_out
          /\ job'[st_job].progress_history = job[st_job].progress_history]_vars

====
